---- MODULE Spec2Model ----
(***************************************************************************)
(* A model of OntoJSON (owl2jsonschema): the A-box generator, the          *)
(* A-box -> JSON converter and its validator, the transformation engine    *)
(* with its rules and schema builder, the OWL-RL consistency validator and *)
(* the parser's object properties.  Each component has its own             *)
(* specification over the shared variable list; a component that a         *)
(* specification does not run stays in its idle state.                     *)
(***************************************************************************)
EXTENDS Integers, Sequences, FiniteSets, TLC

VARIABLES
    \* ---- ABoxGenerator (abox_generator.py)
    ontology,           \* self.ontology: the T-box the generator reads
    individuals,        \* self.individuals: class uri -> list of individuals
    individual_classes, \* self.individual_classes, in insertion order
    graph,              \* self.graph: the set of triples
    gen_pc,             \* "idle" | "new" | "assert" | "done" | "error"
    work,               \* the (individual, kind, property) steps still to run
    \* ---- ABoxToJSONConverter (abox_to_json.py)
    abox_graph,         \* the graph handed to convert()
    class_definitions,  \* self.class_definitions: json_schema["definitions"]
    reference_style,    \* self.reference_style: "inline" | "reference"
    converted_cache,    \* self._converted_cache: uri -> converted object
    stack,              \* the active _convert_individual calls, innermost last
    todo,               \* convert(): the individuals its loop has still to visit
    instances,          \* convert(): the objects appended so far
    conv_pc,            \* "idle" | "new" | "run" | "done" | "recursion_error"
    \* ---- TransformationEngine (engine.py) and SchemaBuilder (builder.py)
    config,             \* engine -> self.config: rule id -> enabled, and options
    rules,              \* engine -> self.rules: rule id -> rule.enabled
    schema_builder,     \* engine -> self.schema_builder
    calls,              \* thread -> the transform() call it is running
    returned,           \* the documents transform() has returned, in order
    \* ---- ABoxToJSONConverter.validate, ABoxValidator (reasoner.py),
    \* ---- OntologyParser (parser.py): one record per run
    validation,         \* validate(): its position, remaining types and results
    reasoner,           \* ABoxValidator.validate(): its position, graph and issues
    parser,             \* OntologyParser: its position, graph and self.ontology
    toggled             \* rule id -> the last of enable_rule/disable_rule called with it

genVars == <<ontology, individuals, individual_classes, graph, gen_pc, work>>
convVars == <<abox_graph, class_definitions, reference_style, converted_cache,
              stack, todo, instances, conv_pc>>
engVars == <<config, rules, schema_builder, calls, returned>>

auxVars == <<validation, reasoner, parser, toggled>>
vars == <<genVars, convVars, engVars, auxVars>>

NONE == "None"
\* Optional[int] = None, for the three cardinality fields
NoCard == -1

\* ---------------------------------------------------------------- helpers

Range(s) == {s[i] : i \in DOMAIN s}

RECURSIVE SeqOfSet(_)
SeqOfSet(S) == IF S = {} THEN <<>>
               ELSE LET x == CHOOSE y \in S : TRUE IN <<x>> \o SeqOfSet(S \ {x})

RECURSIVE Flatten(_)
Flatten(ss) == IF ss = <<>> THEN <<>> ELSE Head(ss) \o Flatten(Tail(ss))

Min2(a, b) == IF a < b THEN a ELSE b
Max2(a, b) == IF a > b THEN a ELSE b

\* Injective sequences of length k over the positions of a list: the results
\* random.sample(list, k) can return, as positions.
Samples(n, k) == {f \in [1..k -> 1..n] : \A i, j \in 1..k : i # j => f[i] # f[j]}

\* ------------------------------------------------------------ T-box model
\* model.py: OntologyClass, ObjectProperty, DatatypeProperty and the two
\* restriction kinds, as records.  A field the dataclass leaves None is NONE.

THING == "owl:Thing"

\* A dict is a function from its keys; {} is the empty function.
EmptyDict == <<>>

OntologyClass(uri, supers, disjoint, restrictions, annotations) ==
    [uri |-> uri, label |-> NONE, comment |-> NONE, super_classes |-> supers,
     disjoint_with |-> disjoint, restrictions |-> restrictions,
     annotations |-> annotations]

ObjectProperty(uri, domain, range, inverse_of, functional, inverse_functional, asymmetric, irreflexive) ==
    [uri |-> uri, label |-> NONE, comment |-> NONE, domain |-> domain,
     range |-> range, inverse_of |-> inverse_of, functional |-> functional, inverse_functional |-> inverse_functional,
     asymmetric |-> asymmetric, irreflexive |-> irreflexive]

DatatypeProperty(uri, domain, range, functional) ==
    [uri |-> uri, label |-> NONE, comment |-> NONE, domain |-> domain,
     range |-> range, functional |-> functional]

CardinalityRestriction(p, mn, mx, ex) ==
    [kind |-> "cardinality", property_uri |-> p, restriction_type |-> "cardinality",
     min_cardinality |-> mn, max_cardinality |-> mx, exact_cardinality |-> ex,
     filler |-> NONE, value |-> NONE]

ValueRestriction(p, type, filler) ==
    [kind |-> "value", property_uri |-> p, restriction_type |-> type,
     min_cardinality |-> NoCard, max_cardinality |-> NoCard, exact_cardinality |-> NoCard,
     filler |-> filler, value |-> filler]

\* ---------------------------------------------------------- ABoxGenerator

\* Bound of the generated population: generate() is called with
\* min_instances and max_instances that keep the total within it.
MaxPopulation == 2
\* The value count of a property is capped at 3 (datatype and structural
\* object properties) or 2 (other object properties).
StructuralCap == 3
PlainCap == 2

\* _generate_object_properties: the keywords that make a property
\* "structural"; a property uri of the model stands for its local name.
StructuralNames == {"partOf", "composedOf", "hasPart"}
IsStructural(prop_uri) == prop_uri \in StructuralNames

\* _build_lookup_maps: class_map.get / object_prop_map.get; a later entry
\* with the same uri replaces an earlier one.
HasClass(o, uri) == \E i \in DOMAIN o.classes : o.classes[i].uri = uri
ClassByUri(o, uri) ==
    o.classes[CHOOSE i \in DOMAIN o.classes :
                 /\ o.classes[i].uri = uri
                 /\ \A j \in DOMAIN o.classes : o.classes[j].uri = uri => j <= i]

HasObjectProp(o, uri) == \E i \in DOMAIN o.object_properties : o.object_properties[i].uri = uri
ObjectPropByUri(o, uri) ==
    o.object_properties[CHOOSE i \in DOMAIN o.object_properties :
                 /\ o.object_properties[i].uri = uri
                 /\ \A j \in DOMAIN o.object_properties :
                        o.object_properties[j].uri = uri => j <= i]

\* _is_concrete_class
IsConcreteClass(o, c) ==
    LET subclasses == SelectSeq(o.classes, LAMBDA k : c.uri \in Range(k.super_classes))
    IN  /\ c.uri # THING
        /\ "enumeration" \notin DOMAIN c.annotations
        /\ ~(/\ Len(subclasses) >= 2
             /\ \E i, j \in DOMAIN subclasses :
                   /\ i < j
                   /\ \/ subclasses[j].uri \in Range(subclasses[i].disjoint_with)
                      \/ subclasses[i].uri \in Range(subclasses[j].disjoint_with))

\* _is_property_in_class_restrictions
IsPropertyInClassRestrictions(c, prop_uri) ==
    \E i \in DOMAIN c.restrictions : c.restrictions[i].property_uri = prop_uri

\* _is_property_applicable
IsPropertyApplicable(c, domains) ==
    /\ domains # <<>>
    /\ \/ THING \in Range(domains)
       \/ (({c.uri} \cup Range(c.super_classes)) \cap Range(domains)) # {}

\* _get_applicable_object_properties / _get_applicable_datatype_properties:
\* the properties of the map, in its order, that apply to the class.
ApplicableProps(props, c) ==
    SelectSeq(props, LAMBDA p :
        \/ (p.domain # <<>> /\ IsPropertyApplicable(c, p.domain))
        \/ IsPropertyInClassRestrictions(c, p.uri))

\* _get_property_cardinality: <<min_card, max_card>>, -1 for unbounded.
RECURSIVE CardinalityFold(_, _, _, _, _)
CardinalityFold(rs, i, prop_uri, mn, mx) ==
    IF i > Len(rs) THEN <<mn, mx>>
    ELSE LET r == rs[i] IN
         IF r.property_uri # prop_uri THEN CardinalityFold(rs, i + 1, prop_uri, mn, mx)
         ELSE LET mn1 == IF r.min_cardinality # NoCard THEN Max2(mn, r.min_cardinality) ELSE mn
                  mx1 == IF r.max_cardinality # NoCard
                         THEN (IF mx = -1 THEN r.max_cardinality
                               ELSE Min2(mx, r.max_cardinality))
                         ELSE mx
              IN IF r.exact_cardinality # NoCard
                 THEN CardinalityFold(rs, i + 1, prop_uri,
                                      r.exact_cardinality, r.exact_cardinality)
                 ELSE CardinalityFold(rs, i + 1, prop_uri, mn1, mx1)

GetPropertyCardinality(c, prop_uri) == CardinalityFold(c.restrictions, 1, prop_uri, 0, -1)

\* _infer_property_range_from_restrictions: every restriction on the property
\* that has a filler contributes it (a cardinality restriction has none, and
\* its value is a number, not a URI string).
InferPropertyRangeFromRestrictions(o, prop_uri) ==
    UNION {{r.filler : r \in {x \in Range(c.restrictions) :
                                x.property_uri = prop_uri /\ x.kind = "value"}} :
           c \in Range(o.classes)}

\* _get_target_individuals: the individuals of every range class (declared
\* or inferred) and of the classes that list it as a superclass.  The list
\* may hold an individual more than once.
TargetsOfRange(o, inds, range_class) ==
    IF range_class = THING THEN <<>>
    ELSE (IF range_class \in DOMAIN inds THEN inds[range_class] ELSE <<>>)
         \o Flatten([k \in 1..Len(o.classes) |->
               IF /\ o.classes[k].uri \in DOMAIN inds
                  /\ o.classes[k].uri # range_class
                  /\ range_class \in Range(ClassByUri(o, o.classes[k].uri).super_classes)
               THEN inds[o.classes[k].uri] ELSE <<>>])

GetTargetIndividuals(o, inds, prop) ==
    LET all_ranges == SeqOfSet(Range(prop.range)
                               \cup InferPropertyRangeFromRestrictions(o, prop.uri))
    IN Flatten([k \in 1..Len(all_ranges) |-> TargetsOfRange(o, inds, all_ranges[k])])

Objects(g, s, p) == {t[3] : t \in {u \in g : u[1] = s /\ u[2] = p}}

\* _get_used_targets_for_inverse_functional
GetUsedTargetsForInverseFunctional(g, prop_uri) == {t[3] : t \in {u \in g : u[2] = prop_uri}}

\* _generate_object_properties, the first filter: targets that would break
\* irreflexive or asymmetric are dropped.
ValidTargets(g, individual, prop, targets) ==
    SelectSeq(targets, LAMBDA t :
        /\ ~(prop.irreflexive /\ t = individual)
        /\ ~(prop.asymmetric /\ <<t, prop.uri, individual>> \in g))

\* _generate_object_properties, lines 287-306: the mirror of an accepted edge.
MirrorEdge(o, g, individual, prop, target) ==
    IF prop.inverse_of = NONE \/ ~HasObjectProp(o, prop.inverse_of) THEN g
    ELSE LET inverse_prop == ObjectPropByUri(o, prop.inverse_of) IN
         IF inverse_prop.irreflexive /\ target = individual THEN g
         ELSE IF inverse_prop.asymmetric /\ <<individual, prop.inverse_of, target>> \in g THEN g
         ELSE IF inverse_prop.functional /\ Objects(g, target, prop.inverse_of) # {} THEN g
         ELSE g \cup {<<target, prop.inverse_of, individual>>}

\* _generate_object_properties, lines 280-306: the loop over the sample.
RECURSIVE AddEdges(_, _, _, _, _)
AddEdges(o, g, individual, prop, selected) ==
    IF selected = <<>> THEN g
    ELSE LET target == Head(selected) IN
         IF prop.irreflexive /\ target = individual
         THEN AddEdges(o, g, individual, prop, Tail(selected))
         ELSE AddEdges(o, MirrorEdge(o, g \cup {<<individual, prop.uri, target>>},
                                     individual, prop, target),
                       individual, prop, Tail(selected))

\* The literals _generate_datatype_value can produce (random, so any).
DataValues == {"v1", "v2"}

RDF_TYPE == "rdf:type"
NAMED_INDIVIDUAL == "owl:NamedIndividual"

\* _generate_datatype_properties, lines 171-187: the value counts the random
\* draws allow; {} with error TRUE when random.randint gets an empty range.
DatatypeNumValues(c, prop) ==
    LET card == GetPropertyCardinality(c, prop.uri)
        min_card == card[1]
        max_card == IF prop.functional THEN 1 ELSE card[2]
        max_val == Min2(IF max_card > 0 THEN max_card ELSE StructuralCap, StructuralCap)
    IN [skip  |-> min_card = 0,
        error |-> max_card # 1 /\ min_card > max_val,
        nums  |-> IF max_card = 1 THEN (IF min_card > 0 THEN {1} ELSE {0, 1})
                  ELSE min_card..max_val]

\* _generate_object_properties, lines 226-263.
ObjectNumValues(c, prop) ==
    LET card == GetPropertyCardinality(c, prop.uri)
        min_card == card[1]
        max_card == IF prop.functional THEN 1 ELSE card[2]
        cap == IF IsStructural(prop.uri) THEN StructuralCap ELSE PlainCap
        max_val == Min2(IF max_card > 0 THEN max_card ELSE cap, cap)
    IN [skip  |-> min_card = 0,
        error |-> max_card # 1 /\ Max2(min_card, 1) > max_val,
        nums  |-> IF max_card = 1 THEN (IF min_card > 0 THEN {1} ELSE {0, 1})
                  ELSE Max2(min_card, 1)..max_val]

\* _generate_object_properties, lines 265-278: the targets the sample is
\* drawn from, after the inverse-functional filter.
AvailableTargets(g, prop, valid_targets) ==
    IF prop.inverse_functional
    THEN SelectSeq(valid_targets,
                   LAMBDA t : t \notin GetUsedTargetsForInverseFunctional(g, prop.uri))
    ELSE valid_targets

\* _generate_class_individuals: the triples of one class's individuals.
ClassIndividuals(class_uri, n) == [i \in 1..n |-> <<class_uri, i>>]

\* A graph node that is not a generated individual (a class, a literal,
\* the ontology): individuals are <<class uri, i>> with i >= 1.
Node(name) == <<name, 0>>

TypeTriples(inds) ==
    UNION {{<<inds[i], RDF_TYPE, Node(inds[i][1])>>,
            <<inds[i], RDF_TYPE, Node(NAMED_INDIVIDUAL)>>} : i \in DOMAIN inds}

\* _generate_property_assertions: for every individual, in insertion order,
\* its datatype steps and then its object steps.
WorkOf(o, ind) ==
    LET c == ClassByUri(o, ind[2])
        dts == ApplicableProps(o.datatype_properties, c)
        obs == ApplicableProps(o.object_properties, c)
    IN [k \in 1..Len(dts) |-> [individual |-> ind[1], class |-> ind[2],
                               kind |-> "datatype", prop |-> dts[k].uri]]
       \o [k \in 1..Len(obs) |-> [individual |-> ind[1], class |-> ind[2],
                               kind |-> "object", prop |-> obs[k].uri]]

DatatypePropByUri(o, uri) ==
    o.datatype_properties[CHOOSE i \in DOMAIN o.datatype_properties :
                 /\ o.datatype_properties[i].uri = uri
                 /\ \A j \in DOMAIN o.datatype_properties :
                        o.datatype_properties[j].uri = uri => j <= i]

\* generate(), step 1: random.randint(min_instances, max_instances)
\* individuals for every concrete class, then the work of step 2 is fixed.
GenerateIndividuals ==
    /\ gen_pc = "new"
    /\ \E counts \in [DOMAIN ontology.classes -> 0..MaxPopulation] :
         LET concrete == {k \in DOMAIN ontology.classes :
                             IsConcreteClass(ontology, ontology.classes[k])}
             lists == [k \in DOMAIN ontology.classes |->
                         IF k \in concrete
                         THEN ClassIndividuals(ontology.classes[k].uri, counts[k])
                         ELSE <<>>]
             all == Flatten(lists)
             ics == [i \in DOMAIN all |-> <<all[i], all[i][1]>>]
         IN /\ \A k \in DOMAIN ontology.classes : k \notin concrete => counts[k] = 0
            /\ Len(all) <= MaxPopulation
            /\ individuals' = [u \in {ontology.classes[k].uri : k \in concrete} |->
                                 ClassIndividuals(u,
                                    counts[CHOOSE k \in concrete :
                                             /\ ontology.classes[k].uri = u
                                             /\ \A j \in concrete :
                                                  ontology.classes[j].uri = u => j <= k])]
            /\ individual_classes' = ics
            /\ graph' = TypeTriples(all)
            /\ work' = Flatten([i \in DOMAIN ics |-> WorkOf(ontology, ics[i])])
    /\ gen_pc' = "assert"
    /\ UNCHANGED <<ontology, convVars, engVars, auxVars>>

\* _generate_datatype_properties, for one applicable property.
GenerateDatatypeProperty ==
    /\ gen_pc = "assert" /\ work # <<>> /\ Head(work).kind = "datatype"
    /\ LET w == Head(work)
           c == ClassByUri(ontology, w.class)
           prop == DatatypePropByUri(ontology, w.prop)
           nv == DatatypeNumValues(c, prop)
       IN \/ /\ nv.skip
             /\ UNCHANGED <<graph, gen_pc>>
             /\ work' = Tail(work)
          \/ /\ nv.error
             /\ gen_pc' = "error"
             /\ UNCHANGED <<graph, work>>
          \/ /\ ~nv.error
             /\ \E num \in nv.nums : \E vals \in SUBSET DataValues :
                   /\ Cardinality(vals) <= num
                   /\ (num > 0 => vals # {})
                   /\ graph' = graph \cup {<<w.individual, prop.uri, Node(v)>> : v \in vals}
             /\ work' = Tail(work)
             /\ UNCHANGED gen_pc
    /\ UNCHANGED <<ontology, individuals, individual_classes, convVars, engVars, auxVars>>

\* _generate_object_properties, for one applicable property.
GenerateObjectProperty ==
    /\ gen_pc = "assert" /\ work # <<>> /\ Head(work).kind = "object"
    /\ LET w == Head(work)
           c == ClassByUri(ontology, w.class)
           prop == ObjectPropByUri(ontology, w.prop)
           valid == ValidTargets(graph, w.individual, prop,
                                 GetTargetIndividuals(ontology, individuals, prop))
           nv == ObjectNumValues(c, prop)
           avail == AvailableTargets(graph, prop, valid)
       IN \/ /\ valid = <<>> \/ nv.skip \/ (~nv.error /\ (0 \in nv.nums \/ avail = <<>>))
             /\ UNCHANGED <<graph, gen_pc>>
             /\ work' = Tail(work)
          \/ /\ valid # <<>> /\ nv.error
             /\ gen_pc' = "error"
             /\ UNCHANGED <<graph, work>>
          \/ /\ valid # <<>> /\ ~nv.error /\ avail # <<>>
             /\ \E num \in nv.nums \ {0} :
                  \E f \in Samples(Len(avail), Min2(num, Len(avail))) :
                     graph' = AddEdges(ontology, graph, w.individual, prop,
                                       [i \in DOMAIN f |-> avail[f[i]]])
             /\ work' = Tail(work)
             /\ UNCHANGED gen_pc
    /\ UNCHANGED <<ontology, individuals, individual_classes, convVars, engVars, auxVars>>

\* generate(), step 3 and the return.
GenerateReturn ==
    /\ gen_pc = "assert" /\ work = <<>>
    /\ graph' = graph \cup {<<Node("base"), RDF_TYPE, Node("owl:Ontology")>>}
    /\ gen_pc' = "done"
    /\ UNCHANGED <<ontology, individuals, individual_classes, work, convVars, engVars, auxVars>>

\* The T-boxes the generator is run on, all of them outputs of the parser
\* (parser.py _parse_object_properties followed by
\* _ensure_bidirectional_inverses): a declared inverse is back-filled only
\* into a property that declares none, and may name a property the
\* ontology does not declare.
Flags == {"functional", "inverse_functional", "asymmetric", "irreflexive"}

Prop(uri, domain, range, inverse_of, fl) ==
    ObjectProperty(uri, <<domain>>, <<range>>, inverse_of, "functional" \in fl,
                   "inverse_functional" \in fl, "asymmetric" \in fl, "irreflexive" \in fl)

GenOntology(shape, fP, fQ) ==
    LET A == OntologyClass("A", <<>>, <<>>, <<>>, EmptyDict)
        B == OntologyClass("B", <<>>, <<>>, <<>>, EmptyDict)
    IN CASE shape = "pair" ->
              [classes |-> <<A, B>>,
               object_properties |-> <<Prop("partOf", "A", "B", "hasPart", fP),
                                       Prop("hasPart", "B", "A", "partOf", fQ)>>,
               datatype_properties |-> <<>>]
         [] shape = "loop" ->
              [classes |-> <<A>>,
               object_properties |-> <<Prop("knows", "A", "A", "knownBy", fP),
                                       Prop("knownBy", "A", "A", "knows", fQ)>>,
               datatype_properties |-> <<>>]
         [] shape = "chain" ->
              [classes |-> <<A, B>>,
               object_properties |-> <<Prop("partOf", "A", "B", "hasPart", fP),
                                       Prop("hasPart", "B", "A", "contains", fQ),
                                       Prop("contains", "A", "B", "hasPart", {})>>,
               datatype_properties |-> <<>>]
         [] shape = "undeclared" ->
              [classes |-> <<A, B>>,
               object_properties |-> <<Prop("partOf", "A", "B", "external", fP),
                                       Prop("hasPart", "B", "A", NONE, fQ)>>,
               datatype_properties |-> <<>>]
         [] shape = "data" ->
              [classes |-> <<A>>,
               object_properties |-> <<>>,
               datatype_properties |->
                   <<DatatypeProperty("label", <<"A">>, <<"xsd:string">>,
                                      "functional" \in fP)>>]

\* A property carries at most one of the characteristics.
FlagSets == {{}} \cup {{f} : f \in Flags}

GenOntologies ==
    {GenOntology(sh, fP, fQ) : sh \in {"pair", "loop"}, fP \in FlagSets, fQ \in FlagSets}
    \cup {GenOntology("chain", {}, fQ) : fQ \in {{}, {"functional"}}}
    \cup {GenOntology("undeclared", {}, {})}
    \cup {GenOntology("data", fP, {}) : fP \in {{}, {"functional"}}}

\* ------------------------------------------------- ABoxToJSONConverter
\* abox_to_json.py.  The A-box handed to convert() holds individuals that
\* are linked by one object property; uris are plain strings here.

\* Depth at which the interpreter raises RecursionError, scaled down.
RecursionLimit == 3

KNOWS == "knows"
ConvIndividuals == {"a", "b"}

\* All orders in which a set can be iterated (rdflib yields triples in no
\* order the caller controls).
Orders(S) == {f \in [1..Cardinality(S) -> S] : \A i, j \in DOMAIN f : i # j => f[i] # f[j]}

\* The "@id" stub object ObjectPropertyRule puts beside the $ref.
IdStub ==
    ("type" :> "object") @@ ("properties" :> ("@id" :> [type |-> "string", format |-> "uri"]))
    @@ ("required" :> <<"@id">>) @@ ("additionalProperties" :> FALSE)

RefTo(name) == ("$ref" :> <<"#/definitions/", name>>)

\* The shapes a property schema of the generated JSON Schema can take.
PropertySchemas ==
    LET oneOfRef == ("oneOf" :> <<RefTo("A"), IdStub>>)
        oneOfAny == ("oneOf" :> <<[type |-> "object"], IdStub>>)
        array(items) == ("type" :> "array") @@ ("items" :> items)
    IN {oneOfRef, array(oneOfRef), oneOfAny, array(oneOfAny),
        RefTo("A"), array(RefTo("A")), [type |-> "string"], array([type |-> "string"])}

\* graph.objects(subject, predicate)
GraphObjects(g, s, p) == {t[3] : t \in {u \in g : u[1] = s /\ u[2] = p}}

\* _find_individuals: the subjects that have an rdf:type (none of them is
\* typed as a class or a property in these graphs).
FindIndividuals(g) == {t[1] : t \in {u \in g : u[2] = RDF_TYPE}}

\* _convert_individual, lines 129-144: the first type, other than
\* owl:NamedIndividual, that names a definition; NONE when there is none.
TypeNames(g, uri) ==
    (GraphObjects(g, uri, RDF_TYPE) \ {NAMED_INDIVIDUAL}) \cap DOMAIN class_definitions

\* _get_full_class_definition for a definition without allOf: its own
\* properties.
GetFullClassDefinition(type_name) ==
    [properties |-> class_definitions[type_name]["properties"]]

\* _convert_value on a URIRef: what the branch taken does with the value.
\*   "convert": call _convert_individual, "cached": return the cache entry,
\*   "id": return {"@id": uri}, "str": return str(value).
ConvertValueBranch(value, schema) ==
    IF "oneOf" \in DOMAIN schema
    THEN IF reference_style = "inline"
         THEN IF \E i \in DOMAIN schema["oneOf"] : "$ref" \in DOMAIN schema["oneOf"][i]
              THEN IF value \notin DOMAIN converted_cache THEN "convert" ELSE "cached"
              ELSE "id"
         ELSE "id"
    ELSE IF "$ref" \in DOMAIN schema
         THEN IF reference_style = "inline"
              THEN IF value \notin DOMAIN converted_cache THEN "convert" ELSE "cached"
              ELSE "id"
         ELSE "str"

\* A call of _convert_individual: the values of the property it has still
\* to convert and the ones it has converted.
Frames(g, uri) ==
    LET names == TypeNames(g, uri)
        values == GraphObjects(g, uri, KNOWS)
    IN IF names = {} \/ values = {}
       THEN {[uri |-> uri, has_prop |-> FALSE, is_array |-> FALSE, schema |-> EmptyDict,
              pending |-> <<>>, converted |-> <<>>]}
       ELSE UNION {
              LET props == GetFullClassDefinition(n).properties
              IN IF KNOWS \notin DOMAIN props
                 THEN {[uri |-> uri, has_prop |-> FALSE, is_array |-> FALSE,
                        schema |-> EmptyDict, pending |-> <<>>, converted |-> <<>>]}
                 ELSE LET prop_schema == props[KNOWS]
                          is_array == "type" \in DOMAIN prop_schema /\ prop_schema["type"] = "array"
                      IN IF is_array
                         THEN {[uri |-> uri, has_prop |-> TRUE, is_array |-> TRUE,
                                schema |-> prop_schema["items"],
                                pending |-> o, converted |-> <<>>] : o \in Orders(values)}
                         ELSE {[uri |-> uri, has_prop |-> TRUE, is_array |-> FALSE,
                                schema |-> prop_schema,
                                pending |-> <<v>>, converted |-> <<>>] : v \in values}
              : n \in names}

\* The object a finished call returns.
JsonObj(frame) ==
    IF ~frame.has_prop THEN ("uri" :> frame.uri)
    ELSE ("uri" :> frame.uri)
         @@ (KNOWS :> IF frame.is_array THEN frame.converted ELSE frame.converted[1])

\* convert(), lines 69-76: clear the cache and collect the individuals.
ConvertBegin ==
    /\ conv_pc = "new"
    /\ converted_cache' = EmptyDict
    /\ todo' \in Orders(FindIndividuals(abox_graph))
    /\ instances' = <<>>
    /\ conv_pc' = "run"
    /\ UNCHANGED <<abox_graph, class_definitions, reference_style, stack, genVars, engVars, auxVars>>

\* convert(), line 81: the loop calls _convert_individual for the next
\* individual.
ConvertIndividual ==
    /\ conv_pc = "run"
    /\ stack = <<>>
    /\ todo # <<>>
    /\ \E frame \in Frames(abox_graph, Head(todo)) : stack' = <<frame>>
    /\ UNCHANGED <<abox_graph, class_definitions, reference_style, converted_cache,
                   todo, instances, conv_pc, genVars, engVars, auxVars>>

\* _convert_value for the next value of the innermost call.  A value that
\* is to be inlined and is not in the cache starts a nested
\* _convert_individual; the interpreter raises RecursionError when the
\* nesting reaches its limit, and convert() propagates it.
ConvertValue ==
    /\ conv_pc = "run"
    /\ stack # <<>>
    /\ LET top == stack[Len(stack)]
       IN /\ top.pending # <<>>
          /\ LET value == Head(top.pending)
                 branch == ConvertValueBranch(value, top.schema)
                 result == CASE branch = "cached" -> converted_cache[value]
                             [] branch = "id" -> ("@id" :> value)
                             [] OTHER -> value
                 advanced == [top EXCEPT !.pending = Tail(@), !.converted = Append(@, result)]
             IN \/ /\ branch = "convert"
                   /\ Len(stack) < RecursionLimit
                   /\ \E frame \in Frames(abox_graph, value) : stack' = Append(stack, frame)
                   /\ UNCHANGED conv_pc
                \/ /\ branch = "convert"
                   /\ Len(stack) >= RecursionLimit
                   /\ stack' = <<>>
                   /\ conv_pc' = "recursion_error"
                \/ /\ branch # "convert"
                   /\ stack' = [stack EXCEPT ![Len(stack)] = advanced]
                   /\ UNCHANGED conv_pc
    /\ UNCHANGED <<abox_graph, class_definitions, reference_style, converted_cache,
                   todo, instances, genVars, engVars, auxVars>>

\* _convert_individual returns.  A nested call returns into
\* _convert_value, which stores the object in the cache (lines 283-286 and
\* 303-306) and hands it on; the outermost call returns into convert(),
\* which appends the object to the instances of its type.
ReturnIndividual ==
    /\ conv_pc = "run"
    /\ stack # <<>>
    /\ LET top == stack[Len(stack)]
           json_obj == JsonObj(top)
       IN /\ top.pending = <<>>
          /\ IF Len(stack) > 1
             THEN LET caller == stack[Len(stack) - 1]
                  IN /\ converted_cache' = (top.uri :> json_obj) @@ converted_cache
                     /\ stack' = [SubSeq(stack, 1, Len(stack) - 1) EXCEPT ![Len(stack) - 1] =
                                     [caller EXCEPT !.pending = Tail(@),
                                                    !.converted = Append(@, json_obj)]]
                     /\ UNCHANGED <<todo, instances>>
             ELSE /\ stack' = <<>>
                  /\ todo' = Tail(todo)
                  /\ instances' = IF TypeNames(abox_graph, top.uri) # {}
                                  THEN Append(instances, json_obj) ELSE instances
                  /\ UNCHANGED converted_cache
    /\ UNCHANGED <<abox_graph, class_definitions, reference_style, conv_pc, genVars, engVars, auxVars>>

\* convert() returns dict(instances).
ConvertReturn ==
    /\ conv_pc = "run"
    /\ stack = <<>>
    /\ todo = <<>>
    /\ conv_pc' = "done"
    /\ UNCHANGED <<abox_graph, class_definitions, reference_style, converted_cache,
                   stack, todo, instances, genVars, engVars, auxVars>>

\* The A-box graphs: a and b, a of type A and b of type A or of a type the
\* schema does not define, with any set of "knows" edges between them.
ConvGraphs ==
    {{<<"a", RDF_TYPE, NAMED_INDIVIDUAL>>, <<"a", RDF_TYPE, "A">>,
      <<"b", RDF_TYPE, NAMED_INDIVIDUAL>>, <<"b", RDF_TYPE, tb>>}
     \cup {<<e[1], KNOWS, e[2]>> : e \in edges}
     : tb \in {"A", "Z"}, edges \in SUBSET (ConvIndividuals \X ConvIndividuals)}

\* ------------------------------------------------------ names and URIs
\* The engine and its rules cut names out of URIs, so a URI (and any other
\* string they split or search) is the sequence of its pieces, with each
\* of the characters '#', '/', ':', ' ' and '-' a piece of its own.

NS == <<"http", ":", "/", "/", "example.org", "/", "rail", "#">>
Uri(local) == NS \o local
XSD_BASE == <<"http", ":", "/", "/", "www.w3.org", "/", "2001", "/", "XMLSchema", "#">>
Xsd(name) == XSD_BASE \o <<name>>

\* sep in s
Contains(s, sep) == \E i \in DOMAIN s : s[i] = sep

\* s.split(sep)[-1]
AfterLast(s, sep) ==
    LET at == {i \in DOMAIN s : s[i] = sep}
        last == IF at = {} THEN 0 ELSE CHOOSE i \in at : \A j \in at : j <= i
    IN SubSeq(s, last + 1, Len(s))

\* s.replace(a, b) for single characters
Replace(s, a, b) == [i \in DOMAIN s |-> IF s[i] = a THEN b ELSE s[i]]

\* _get_class_name / _get_property_name / _get_name of the rules
GetClassName(uri) ==
    IF Contains(uri, "#") THEN AfterLast(uri, "#")
    ELSE IF Contains(uri, "/") THEN AfterLast(uri, "/")
    ELSE uri

GetPropertyName(uri) == GetClassName(uri)

\* SchemaBuilder._clean_definition_name
CleanDefinitionName(name) ==
    LET n1 == IF Contains(name, ":") THEN AfterLast(name, ":") ELSE name
        n2 == IF Contains(n1, "/") THEN AfterLast(n1, "/") ELSE n1
        n3 == IF Contains(n2, "#") THEN AfterLast(n2, "#") ELSE n2
    IN Replace(Replace(n3, " ", "_"), "-", "_")

\* ReferenceResolver.create_ref with no registered reference:
\* {"$ref": "#/definitions/<target>"}
CreateRef(target) == ("$ref" :> (<<"#", "/", "definitions", "/">> \o target))

\* ---------------------------------------------------------- JSON values
\* d[k] = v and d.update(e)
Put(d, k, v) == (k :> v) @@ d
\* An update that keeps the values of the keys already there.
SetDefaults(d, e) == d @@ e
Update(d, e) == e @@ d

\* ---------------------------------------------------------- SchemaBuilder

\* SchemaBuilder.__init__ / reset
SchemaBuilder ==
    [schema |-> ("$schema" :> "http://json-schema.org/draft-07/schema#"),
     definitions |-> EmptyDict, properties |-> EmptyDict,
     required |-> <<>>, examples |-> <<>>]

\* add_to_root
AddToRoot(b, key, value) == [b EXCEPT !.schema = Put(@, key, value)]

\* add_definition
AddDefinition(b, name, schema) ==
    [b EXCEPT !.definitions = Put(@, CleanDefinitionName(name), schema)]

\* add_property_to_class: nothing happens when the class has no definition
AddPropertyToClass(b, class_name, property_name, property_schema) ==
    LET clean_class_name == CleanDefinitionName(class_name)
    IN IF clean_class_name \in DOMAIN b.definitions
       THEN LET def == b.definitions[clean_class_name]
                props == IF "properties" \in DOMAIN def THEN def["properties"] ELSE EmptyDict
            IN [b EXCEPT !.definitions[clean_class_name] =
                    Put(def, "properties", Put(props, property_name, property_schema))]
       ELSE b

\* add_required_to_class: nothing happens when the class has no definition
AddRequiredToClass(b, class_name, property_name) ==
    LET clean_class_name == CleanDefinitionName(class_name)
    IN IF clean_class_name \in DOMAIN b.definitions
       THEN LET def == b.definitions[clean_class_name]
                req == IF "required" \in DOMAIN def THEN def["required"] ELSE <<>>
            IN [b EXCEPT !.definitions[clean_class_name] =
                    Put(def, "required",
                        IF property_name \in Range(req) THEN req ELSE Append(req, property_name))]
       ELSE b

\* add_property: a property of the root schema
AddProperty(b, name, schema, required) ==
    [b EXCEPT !.properties = Put(@, name, schema),
              !.required = IF required /\ name \notin Range(@) THEN Append(@, name) ELSE @]

\* build: self.schema as build() leaves it; the document returned is a
\* deep copy of it.
BuildSchema(b) ==
    LET s1 == IF b.definitions # EmptyDict THEN Put(b.schema, "definitions", b.definitions)
              ELSE b.schema
        s2 == IF b.properties # EmptyDict
              THEN LET t == Put(Put(s1, "type", "object"), "properties", b.properties)
                   IN IF b.required # <<>> THEN Put(t, "required", b.required) ELSE t
              ELSE IF b.definitions # EmptyDict /\ "type" \notin DOMAIN s1
                   THEN Put(Put(s1, "type", "object"), "additionalProperties", FALSE)
                   ELSE s1
        s3 == IF b.examples # <<>> THEN Put(s2, "examples", b.examples) ELSE s2
    IN IF "type" \notin DOMAIN s3 /\ "definitions" \notin DOMAIN s3
       THEN Put(s3, "type", "object") ELSE s3

\* ------------------------------------------------------------- the rules
\* A rule result that the engine iterates with .items() keeps its keys in
\* insertion order: keys is that order, at the mapping.
EmptyODict == [keys |-> <<>>, at |-> EmptyDict]
OPut(d, k, v) ==
    [keys |-> IF k \in Range(d.keys) THEN d.keys ELSE Append(d.keys, k),
     at |-> Put(d.at, k, v)]

\* What visit_ontology returns: None, or a value.
NoResult == [is_none |-> TRUE, value |-> EmptyDict]
Result(v) == [is_none |-> FALSE, value |-> v]

\* get_label / get_comment of a plain-string label: truthy when set
HasText(x) == x # NONE /\ x # ""

\* ClassToObjectRule._transform_class
TransformClass(owl_class) ==
    LET s0 == ("type" :> "object") @@ ("properties" :> EmptyDict)
        s1 == IF HasText(owl_class.label) THEN Put(s0, "title", owl_class.label) ELSE s0
        s2 == IF HasText(owl_class.comment) THEN Put(s1, "description", owl_class.comment) ELSE s1
    IN Put(s2, "uri", owl_class.uri)

RECURSIVE ClassDefinitions(_,_)
ClassDefinitions(classes, definitions) ==
    IF classes = <<>> THEN definitions
    ELSE ClassDefinitions(Tail(classes),
             OPut(definitions, GetClassName(Head(classes).uri), TransformClass(Head(classes))))

\* ClassToObjectRule.visit_ontology
ClassToObject(o) ==
    LET definitions == ClassDefinitions(o.classes, EmptyODict)
    IN IF definitions.keys # <<>> THEN Result([definitions |-> definitions]) ELSE NoResult

\* ClassHierarchyRule.visit_ontology: allOf of a $ref per superclass and a
\* closing empty object schema
HierarchyOf(owl_class) ==
    ("allOf" :> ([i \in DOMAIN owl_class.super_classes |->
                     CreateRef(GetClassName(owl_class.super_classes[i]))]
                 \o <<("type" :> "object") @@ ("properties" :> EmptyDict)>>))

RECURSIVE HierarchyUpdates(_,_)
HierarchyUpdates(classes, updates) ==
    IF classes = <<>> THEN updates
    ELSE HierarchyUpdates(Tail(classes),
             IF Head(classes).super_classes # <<>>
             THEN OPut(updates, GetClassName(Head(classes).uri), HierarchyOf(Head(classes)))
             ELSE updates)

ClassHierarchy(o) ==
    LET updates == HierarchyUpdates(o.classes, EmptyODict)
    IN IF updates.keys # <<>> THEN Result([hierarchy_updates |-> updates]) ELSE NoResult

\* ClassRestrictionsRule._create_type_reference
XsdTypes ==
    (Xsd("string") :> [type |-> "string"]) @@ (Xsd("integer") :> [type |-> "integer"])
    @@ (Xsd("decimal") :> [type |-> "number"]) @@ (Xsd("boolean") :> [type |-> "boolean"])
    @@ (Xsd("date") :> [type |-> "string", format |-> "date"])
    @@ (Xsd("dateTime") :> [type |-> "string", format |-> "date-time"])

\* A type reference that knows no XSD datatypes.
RefOnly(type_uri) == CreateRef(GetPropertyName(type_uri))

CreateTypeReference(type_uri) ==
    IF type_uri \in DOMAIN XsdTypes THEN XsdTypes[type_uri]
    ELSE CreateRef(GetPropertyName(type_uri))

\* ClassRestrictionsRule._process_restriction: whether the restriction
\* makes the property required, and the schema it contributes.
ProcessRestriction(restriction) ==
    IF restriction.kind = "cardinality"
    THEN LET mn == restriction.min_cardinality
             mx == restriction.max_cardinality
             ex == restriction.exact_cardinality
             s1 == IF mn # NoCard /\ mn >= 1 /\ mn # 1
                   THEN ("type" :> "array") @@ ("minItems" :> mn) ELSE EmptyDict
             s2 == IF mx # NoCard /\ mx # 1
                   THEN Put(IF "type" \notin DOMAIN s1 THEN Put(s1, "type", "array") ELSE s1,
                            "maxItems", mx)
                   ELSE s1
             s3 == IF ex # NoCard /\ ex # 1
                   THEN Put(Put(Put(s2, "type", "array"), "minItems", ex), "maxItems", ex)
                   ELSE s2
         IN [required |-> (mn # NoCard /\ mn >= 1) \/ (ex # NoCard /\ ex = 1), schema |-> s3]
    ELSE CASE restriction.restriction_type = "allValuesFrom" ->
                [required |-> FALSE,
                 schema |-> ("type" :> "array")
                            @@ ("items" :> CreateTypeReference(restriction.filler))
                            @@ ("description" :> (<<"Array of ">> \o GetPropertyName(restriction.filler)))]
           [] restriction.restriction_type = "someValuesFrom" ->
                [required |-> TRUE,
                 schema |-> ("type" :> "array") @@ ("minItems" :> 1)
                            @@ ("items" :> CreateTypeReference(restriction.filler))]
           [] restriction.restriction_type = "hasValue" ->
                [required |-> FALSE, schema |-> ("const" :> restriction.value)]
           [] OTHER -> [required |-> FALSE, schema |-> EmptyDict]

\* The property names of a restriction list, in order of first appearance.
RECURSIVE RestrictedProperties(_,_)
RestrictedProperties(restrictions, names) ==
    IF restrictions = <<>> THEN names
    ELSE LET prop_name == GetPropertyName(Head(restrictions).property_uri)
         IN RestrictedProperties(Tail(restrictions),
                IF prop_name \in Range(names) THEN names ELSE Append(names, prop_name))

\* merged_schema.update(constraint["schema"]) over the restrictions of one
\* property, in their order
RECURSIVE MergedSchema(_,_)
MergedSchema(restrictions, merged_schema) ==
    IF restrictions = <<>> THEN merged_schema
    ELSE MergedSchema(Tail(restrictions),
                      Update(merged_schema, ProcessRestriction(Head(restrictions)).schema))

RestrictionsOn(owl_class, prop_name) ==
    SelectSeq(owl_class.restrictions, LAMBDA r : GetPropertyName(r.property_uri) = prop_name)

\* ClassRestrictionsRule._process_class_restrictions, for a class that has
\* restrictions
ProcessClassRestrictions(owl_class) ==
    LET names == RestrictedProperties(owl_class.restrictions, <<>>)
        properties == [n \in Range(names) |-> MergedSchema(RestrictionsOn(owl_class, n), EmptyDict)]
        required == SelectSeq(names, LAMBDA n :
                        \E r \in Range(RestrictionsOn(owl_class, n)) : ProcessRestriction(r).required)
        constraints == ("class" :> GetClassName(owl_class.uri)) @@ ("properties" :> properties)
    IN IF required # <<>> THEN Put(constraints, "required", required) ELSE constraints

\* ClassRestrictionsRule.visit_ontology
ClassRestrictions(o) ==
    LET with == SelectSeq(o.classes, LAMBDA c : c.restrictions # <<>>)
    IN IF with # <<>> THEN Result([i \in DOMAIN with |-> ProcessClassRestrictions(with[i])])
       ELSE NoResult

\* An absent URI (inverse_of = None) among URIs that are sequences.
NoUri == <<>>

\* ObjectPropertyRule._find_property_by_uri: the first property with the uri
HasProperty(o, uri) == \E i \in DOMAIN o.object_properties : o.object_properties[i].uri = uri
FindPropertyByUri(o, uri) ==
    o.object_properties[CHOOSE i \in DOMAIN o.object_properties :
        /\ o.object_properties[i].uri = uri
        /\ \A j \in DOMAIN o.object_properties : o.object_properties[j].uri = uri => i <= j]

\* ObjectPropertyRule._infer_property_domain_from_usage
InferPropertyDomainFromUsage(property, o) ==
    LET using == SelectSeq(o.classes, LAMBDA c :
                     \E r \in Range(c.restrictions) : r.property_uri = property.uri)
    IN [i \in DOMAIN using |-> using[i].uri]

\* ObjectPropertyRule._transform_object_property, lines 108-114: the
\* declared domain, or the range of the inverse
ObjectPropertyDomains(property, o) ==
    IF property.domain # <<>> THEN property.domain
    ELSE IF property.inverse_of # NoUri /\ HasProperty(o, property.inverse_of)
            /\ FindPropertyByUri(o, property.inverse_of).range # <<>>
         THEN FindPropertyByUri(o, property.inverse_of).range
         ELSE <<>>

\* lines 116-124
ObjectPropertyIsFunctional(property, o) ==
    \/ property.functional
    \/ /\ property.inverse_of # NoUri
       /\ HasProperty(o, property.inverse_of)
       /\ FindPropertyByUri(o, property.inverse_of).inverse_functional

\* lines 132-152: the range class name, <<>> when there is none
ObjectPropertyRangeClass(property, o) ==
    IF property.range # <<>> THEN GetPropertyName(property.range[1])
    ELSE IF property.inverse_of # NoUri /\ HasProperty(o, property.inverse_of)
         THEN LET inverse_prop == FindPropertyByUri(o, property.inverse_of)
                  inferred_domain == InferPropertyDomainFromUsage(inverse_prop, o)
              IN IF inverse_prop.domain # <<>> THEN GetPropertyName(inverse_prop.domain[1])
                 ELSE IF inferred_domain # <<>> THEN GetPropertyName(inferred_domain[1])
                 ELSE <<>>
         ELSE <<>>

\* Title and description from label and comment (both property rules).
WithTitleAndDescription(schema, property) ==
    LET s1 == IF HasText(property.label) THEN Put(schema, "title", property.label) ELSE schema
    IN IF HasText(property.comment) THEN Put(s1, "description", property.comment) ELSE s1

\* One result entry per domain class (both property rules).
PropertyResults(property, domains, schema) ==
    [i \in DOMAIN domains |->
        [class |-> GetPropertyName(domains[i]),
         property |-> [name |-> GetPropertyName(property.uri), schema |-> schema,
                       uri |-> property.uri]]]

\* ObjectPropertyRule._transform_object_property (include_global_properties
\* is left at its default, False)
TransformObjectProperty(property, o) ==
    LET range_class == ObjectPropertyRangeClass(property, o)
        one_of == ("oneOf" :> <<IF range_class # <<>> THEN CreateRef(range_class)
                                  ELSE [type |-> "object"], IdStub>>)
        described == WithTitleAndDescription(one_of, property)
        schema == IF ObjectPropertyIsFunctional(property, o) THEN described
                  ELSE ("type" :> "array") @@ ("items" :> described)
    IN PropertyResults(property, ObjectPropertyDomains(property, o), schema)

\* ObjectPropertyRule.visit_ontology
ObjectPropertyResults(o) ==
    LET results == Flatten([i \in DOMAIN o.object_properties |->
                               TransformObjectProperty(o.object_properties[i], o)])
    IN IF results # <<>> THEN Result(results) ELSE NoResult

\* DatatypePropertyRule._get_datatype_schema: xsd_mapping by local name
XsdMapping ==
    [n \in {"string", "duration"} |-> [type |-> "string"]]
    @@ ("boolean" :> [type |-> "boolean"])
    @@ [n \in {"decimal", "float", "double"} |-> [type |-> "number"]]
    @@ [n \in {"integer", "long", "int", "short"} |-> [type |-> "integer"]]
    @@ [n \in {"nonNegativeInteger", "unsignedLong", "unsignedInt"} |->
            [type |-> "integer", minimum |-> 0]]
    @@ ("positiveInteger" :> [type |-> "integer", minimum |-> 1])
    @@ ("nonPositiveInteger" :> [type |-> "integer", maximum |-> 0])
    @@ ("negativeInteger" :> [type |-> "integer", maximum |-> -1])
    @@ ("byte" :> [type |-> "integer", minimum |-> -128, maximum |-> 127])
    @@ ("unsignedShort" :> [type |-> "integer", minimum |-> 0, maximum |-> 65535])
    @@ ("unsignedByte" :> [type |-> "integer", minimum |-> 0, maximum |-> 255])
    @@ ("date" :> [type |-> "string", format |-> "date"])
    @@ ("time" :> [type |-> "string", format |-> "time"])
    @@ ("dateTime" :> [type |-> "string", format |-> "date-time"])
    @@ ("anyURI" :> [type |-> "string", format |-> "uri"])

\* The uri itself, or xsd_base + the name after '#', is looked up.
GetDatatypeSchema(range) ==
    IF range = <<>> THEN [type |-> "string"]
    ELSE LET datatype_uri == range[1]
             datatype_name == IF Contains(datatype_uri, "#") THEN AfterLast(datatype_uri, "#")
                              ELSE datatype_uri
             known == {n \in DOMAIN XsdMapping : datatype_uri = Xsd(n) \/ datatype_name = <<n>>}
         IN IF known # {} THEN XsdMapping[CHOOSE n \in known : TRUE] ELSE [type |-> "string"]

\* DatatypePropertyRule._transform_datatype_property
TransformDatatypeProperty(property) ==
    LET described == WithTitleAndDescription(GetDatatypeSchema(property.range), property)
        schema == IF property.functional THEN described
                  ELSE ("type" :> "array") @@ ("items" :> described)
    IN PropertyResults(property, property.domain, schema)

\* DatatypePropertyRule.visit_ontology
DatatypePropertyResults(o) ==
    LET results == Flatten([i \in DOMAIN o.datatype_properties |->
                               TransformDatatypeProperty(o.datatype_properties[i])])
    IN IF results # <<>> THEN Result(results) ELSE NoResult

\* LabelsToTitlesRule.visit_ontology: "class:<name>" and "property:<name>"
\* keys, each with {"title": label}
RECURSIVE TitleUpdates(_,_,_)
TitleUpdates(elements, prefix, updates) ==
    IF elements = <<>> THEN updates
    ELSE TitleUpdates(Tail(elements), prefix,
             IF HasText(Head(elements).label)
             THEN OPut(updates, <<prefix>> \o GetClassName(Head(elements).uri),
                       [title |-> Head(elements).label])
             ELSE updates)

LabelsToTitles(o) ==
    LET updates == TitleUpdates(o.datatype_properties, "property:",
                       TitleUpdates(o.object_properties, "property:",
                           TitleUpdates(o.classes, "class:", EmptyODict)))
    IN IF updates.keys # <<>> THEN Result([title_updates |-> updates]) ELSE NoResult

\* EnumerationToEnumRule._create_enum_schema, for a non-empty value list
CreateEnumSchema(owl_class) ==
    LET s0 == ("type" :> "string") @@ ("enum" :> owl_class.annotations["enumeration"])
        s1 == IF HasText(owl_class.label) THEN Put(s0, "title", owl_class.label) ELSE s0
    IN IF HasText(owl_class.comment) THEN Put(s1, "description", owl_class.comment) ELSE s1

RECURSIVE EnumUpdates(_,_)
EnumUpdates(classes, enum_updates) ==
    IF classes = <<>> THEN enum_updates
    ELSE EnumUpdates(Tail(classes),
             IF /\ "enumeration" \in DOMAIN Head(classes).annotations
                /\ Head(classes).annotations["enumeration"] # <<>>
             THEN OPut(enum_updates, GetClassName(Head(classes).uri), CreateEnumSchema(Head(classes)))
             ELSE enum_updates)

\* EnumerationToEnumRule.visit_ontology
EnumerationToEnum(o) ==
    LET enum_updates == EnumUpdates(o.classes, EmptyODict)
    IN IF enum_updates.keys # <<>> THEN Result([enum_updates |-> enum_updates]) ELSE NoResult

\* OntologyMetadataRule.visit_ontology: metadata key, annotation key and
\* fallback annotation key (include_namespaces and include_all_annotations
\* are left at their default, False)
MetadataSources ==
    <<<<"version", "versionInfo", "versionInfo">>, <<"author", "creator", "dc:creator">>,
      <<"license", "license", "dc:rights">>, <<"created", "created", "dc:date">>,
      <<"modified", "modified", "dc:modified">>,
      <<"contributors", "contributor", "dc:contributor">>,
      <<"source", "source", "dc:source">>>>

OntologyMetadata(o, opts) ==
    LET found == {m \in Range(MetadataSources) : {m[2], m[3]} \cap DOMAIN o.annotations # {}}
        metadata == [k \in {m[1] : m \in found} |->
                        LET m == CHOOSE x \in found : x[1] = k
                        IN IF m[2] \in DOMAIN o.annotations THEN o.annotations[m[2]]
                           ELSE o.annotations[m[3]]]
    IN IF found = {} THEN NoResult
       ELSE CASE opts.placement = "info" -> Result([info |-> metadata])
              [] opts.placement = "comment" -> Result(("$comment" :> <<"Metadata: ", metadata>>))
              [] OTHER -> Result(metadata)

\* ---------------------------------------------------- TransformationEngine

\* _initialize_rules: the rule table, in its order
RuleTable ==
    <<"class_to_object", "class_hierarchy", "class_restrictions", "object_property",
      "datatype_property", "property_cardinality", "labels_to_titles",
      "comments_to_descriptions", "enumeration_to_enum", "union_to_anyOf",
      "intersection_to_allOf", "ontology_metadata">>

\* config.py _get_default_config: the rule ids a configuration names
ConfigRuleIds ==
    Range(RuleTable) \cup {"property_restrictions", "annotations_to_metadata",
        "complement_to_not", "equivalent_classes", "disjoint_classes",
        "ontology_to_document", "individuals_to_examples"}

\* The rule ids enable_rule and disable_rule are called with: two rules of
\* the table, an id the configuration names but the table does not, and an
\* id nothing knows.
ToggledIds == {"class_to_object", "object_property", "disjoint_classes", "no_such_rule"}

DefaultConfig ==
    [rules |-> [id \in ConfigRuleIds |->
                   id \notin {"annotations_to_metadata", "disjoint_classes",
                              "individuals_to_examples"}],
     placement |-> "root"]

\* _initialize_rules with TransformationRule.__init__: one rule per table
\* entry, enabled as the configuration says, or by default
InitializeRules(cfg) ==
    [id \in Range(RuleTable) |-> IF id \in DOMAIN cfg.rules THEN cfg.rules[id] ELSE TRUE]

\* ontology.accept(rule), by rule id.  The engine has no merge branch for
\* property_cardinality, comments_to_descriptions, union_to_anyOf and
\* intersection_to_allOf: whatever they return is dropped.
Dropped == Result(<<>>)

Accept(rule_id, o, cfg) ==
    CASE rule_id = "class_to_object" -> ClassToObject(o)
      [] rule_id = "class_hierarchy" -> ClassHierarchy(o)
      [] rule_id = "class_restrictions" -> ClassRestrictions(o)
      [] rule_id = "object_property" -> ObjectPropertyResults(o)
      [] rule_id = "datatype_property" -> DatatypePropertyResults(o)
      [] rule_id = "labels_to_titles" -> LabelsToTitles(o)
      [] rule_id = "enumeration_to_enum" -> EnumerationToEnum(o)
      [] rule_id = "ontology_metadata" -> OntologyMetadata(o, cfg)
      [] OTHER -> Dropped

\* _process_rule_result, class_to_object and enumeration_to_enum branches:
\* add_definition for every item
RECURSIVE MergeDefinitions(_,_,_)
MergeDefinitions(b, d, keys) ==
    IF keys = <<>> THEN b
    ELSE MergeDefinitions(AddDefinition(b, Head(keys), d.at[Head(keys)]), d, Tail(keys))

\* class_hierarchy branch: the allOf goes into the existing definition, or
\* becomes a new definition
RECURSIVE MergeHierarchy(_,_,_)
MergeHierarchy(b, d, keys) ==
    IF keys = <<>> THEN b
    ELSE LET class_name == Head(keys)
             clean_name == CleanDefinitionName(class_name)
             b1 == IF clean_name \in DOMAIN b.definitions
                   THEN [b EXCEPT !.definitions[clean_name] = Update(@, d.at[class_name])]
                   ELSE AddDefinition(b, class_name, d.at[class_name])
         IN MergeHierarchy(b1, d, Tail(keys))

\* labels_to_titles branch: key[6:] of a key that starts with "class:"
RECURSIVE MergeTitles(_,_,_)
MergeTitles(b, d, keys) ==
    IF keys = <<>> THEN b
    ELSE LET key == Head(keys)
             clean_name == CleanDefinitionName(Tail(key))
             b1 == IF /\ Head(key) = "class:"
                      /\ clean_name \in DOMAIN b.definitions
                      /\ "title" \in DOMAIN d.at[key]
                   THEN [b EXCEPT !.definitions[clean_name] = Put(@, "title", d.at[key]["title"])]
                   ELSE b
         IN MergeTitles(b1, d, Tail(keys))

RECURSIVE AddProperties(_,_,_,_)
AddProperties(b, class_name, properties, names) ==
    IF names = <<>> THEN b
    ELSE AddProperties(AddPropertyToClass(b, class_name, Head(names), properties[Head(names)]),
                       class_name, properties, Tail(names))

RECURSIVE AddRequired(_,_,_)
AddRequired(b, class_name, required) ==
    IF required = <<>> THEN b
    ELSE AddRequired(AddRequiredToClass(b, class_name, Head(required)), class_name, Tail(required))

\* class_restrictions branch (the properties of one class have distinct
\* names, so the order of these writes does not matter)
RECURSIVE MergeClassRestrictions(_,_)
MergeClassRestrictions(b, result) ==
    IF result = <<>> THEN b
    ELSE LET class_restrictions == Head(result)
             class_name == class_restrictions["class"]
             b1 == AddProperties(b, class_name, class_restrictions["properties"],
                                 SeqOfSet(DOMAIN class_restrictions["properties"]))
             b2 == IF "required" \in DOMAIN class_restrictions
                   THEN AddRequired(b1, class_name, class_restrictions["required"]) ELSE b1
         IN MergeClassRestrictions(b2, Tail(result))

\* object_property / datatype_property branch
RECURSIVE MergePropertyResults(_,_)
MergePropertyResults(b, result) ==
    IF result = <<>> THEN b
    ELSE MergePropertyResults(
             AddPropertyToClass(b, Head(result).class, Head(result).property.name,
                                Head(result).property.schema),
             Tail(result))

\* ontology_metadata branch
ValidRootProperties ==
    {"title", "description", "$id", "$comment", "$defs", "additionalProperties", "type"}

MergeMetadata(b, result) ==
    [b EXCEPT !.schema = Update(@, [k \in DOMAIN result \cap ValidRootProperties |-> result[k]])]

\* _process_rule_result
ProcessRuleResult(b, rule_id, result) ==
    CASE rule_id = "class_to_object" ->
            MergeDefinitions(b, result.definitions, result.definitions.keys)
      [] rule_id = "class_restrictions" -> MergeClassRestrictions(b, result)
      [] rule_id = "class_hierarchy" ->
            MergeHierarchy(b, result.hierarchy_updates, result.hierarchy_updates.keys)
      [] rule_id = "labels_to_titles" ->
            MergeTitles(b, result.title_updates, result.title_updates.keys)
      [] rule_id = "enumeration_to_enum" ->
            MergeDefinitions(b, result.enum_updates, result.enum_updates.keys)
      [] rule_id = "ontology_metadata" -> MergeMetadata(b, result)
      [] rule_id \in {"object_property", "datatype_property"} -> MergePropertyResults(b, result)
      [] OTHER -> b

\* A transform that kept the builder of the previous call.
KeepSchemaBuilder(b) == b

\* transform, line 104: self.schema_builder = SchemaBuilder()
ResetSchemaBuilder(b) == SchemaBuilder

\* One pass of the loop of transform, lines 107-117
ApplyOneRule(b, rule_id, enabled, o, cfg) ==
    IF enabled[rule_id] /\ ~Accept(rule_id, o, cfg).is_none
    THEN ProcessRuleResult(b, rule_id, Accept(rule_id, o, cfg).value)
    ELSE b

\* The document a new engine with the configuration returns for a model.
RECURSIVE RunRules(_,_,_,_,_)
RunRules(b, i, enabled, o, cfg) ==
    IF i > Len(RuleTable) THEN b
    ELSE RunRules(ApplyOneRule(b, RuleTable[i], enabled, o, cfg), i + 1, enabled, o, cfg)

FreshTransform(o, cfg) == BuildSchema(RunRules(SchemaBuilder, 1, InitializeRules(cfg), o, cfg))

\* config.is_rule_enabled
IsRuleEnabled(cfg, rule_id) == IF rule_id \in DOMAIN cfg.rules THEN cfg.rules[rule_id] ELSE TRUE

\* A configuration that enable_rule and disable_rule leave as it is.
KeepConfig(cfg, rule_id, enabled) == cfg

\* config.enable_rule / config.disable_rule:
\* self.config["rules"][rule_id]["enabled"] = enabled
SetRuleEnabled(cfg, rule_id, enabled) == [cfg EXCEPT !.rules = Put(@, rule_id, enabled)]

\* engine.get_enabled_rules / get_disabled_rules
GetEnabledRules(engine_rules) == SelectSeq(RuleTable, LAMBDA id : engine_rules[id])
GetDisabledRules(engine_rules) == SelectSeq(RuleTable, LAMBDA id : ~engine_rules[id])

Threads == {1, 2}
Engines == {1, 2}

\* Every call made on one and the same engine.
SharedEngine(call) == 1

\* self, in a running transform()
EngineOf(call) == call.engine

\* model.py OntologyModel
OntologyModel(classes, object_properties, datatype_properties, annotations) ==
    [uri |-> Uri(<<>>), classes |-> classes, object_properties |-> object_properties,
     datatype_properties |-> datatype_properties, annotations |-> annotations]

NoModel == OntologyModel(<<>>, <<>>, <<>>, EmptyDict)

\* A thread that is not in transform(), with the models it will transform.
IdleCall(engine, models) ==
    [pc |-> "idle", engine |-> engine, todo |-> models, ontology |-> NoModel, i |-> 0,
     last_rule |-> "", result |-> NoResult]

\* transform(ontology), line 104: the engine takes a new SchemaBuilder.
TransformBegin(t) ==
    /\ calls[t].pc = "idle"
    /\ calls[t].todo # <<>>
    /\ schema_builder' = [schema_builder EXCEPT ![EngineOf(calls[t])] = ResetSchemaBuilder(@)]
    /\ calls' = [calls EXCEPT ![t] = [pc |-> "rules", engine |-> calls[t].engine,
                                      todo |-> Tail(calls[t].todo),
                                      ontology |-> Head(calls[t].todo), i |-> 1,
                                      last_rule |-> "", result |-> NoResult]]
    /\ UNCHANGED <<config, rules, returned, genVars, convVars, auxVars>>

\* transform, lines 107-117: the next rule of the table; an enabled rule
\* visits the ontology and its result is merged into the engine's builder.
ApplyRule(t) ==
    /\ calls[t].pc = "rules"
    /\ calls[t].i <= Len(RuleTable)
    /\ LET e == EngineOf(calls[t])
           rule_id == RuleTable[calls[t].i]
           o == calls[t].ontology
       IN /\ schema_builder' = [schema_builder EXCEPT ![e] =
                                   ApplyOneRule(@, rule_id, rules[e], o, config[e])]
          /\ calls' = [calls EXCEPT ![t] =
                          IF rules[e][rule_id]
                          THEN [@ EXCEPT !.i = @ + 1, !.last_rule = rule_id,
                                         !.result = Accept(rule_id, o, config[e])]
                          ELSE [@ EXCEPT !.i = @ + 1]]
    /\ UNCHANGED <<config, rules, returned, genVars, convVars, auxVars>>

\* transform, line 120: return self.schema_builder.build()
TransformReturn(t) ==
    /\ calls[t].pc = "rules"
    /\ calls[t].i > Len(RuleTable)
    /\ LET e == EngineOf(calls[t])
           doc == BuildSchema(schema_builder[e])
       IN /\ schema_builder' = [schema_builder EXCEPT ![e].schema = doc]
          /\ returned' = Append(returned, [thread |-> t, engine |-> e,
                                           ontology |-> calls[t].ontology,
                                           config |-> config[e], doc |-> doc])
    /\ calls' = [calls EXCEPT ![t].pc = "idle"]
    /\ UNCHANGED <<config, rules, genVars, convVars, auxVars>>

\* ------------------------------------------------ the models transformed

\* Longest restriction list of a class, and most transform() calls in a row.
MaxRestrictions == 2
MaxCalls == 2

Vehicle == Uri(<<"Vehicle">>)
VehicleType == Uri(<<"VehicleType">>)
Formation == Uri(<<"Formation">>)
RollingStock == Uri(<<"RollingStock">>)
ofType == Uri(<<"ofType">>)

\* The restrictions a class can put on ofType.
RestrictionPool ==
    {CardinalityRestriction(ofType, NoCard, NoCard, 1),
     CardinalityRestriction(ofType, 1, NoCard, NoCard),
     CardinalityRestriction(ofType, 1, 1, NoCard),
     CardinalityRestriction(ofType, NoCard, NoCard, 2),
     ValueRestriction(ofType, "someValuesFrom", VehicleType),
     ValueRestriction(ofType, "someValuesFrom", Xsd("integer")),
     ValueRestriction(ofType, "allValuesFrom", VehicleType),
     ValueRestriction(ofType, "allValuesFrom", Formation)}

RestrictionLists == UNION {[1..n -> RestrictionPool] : n \in 0..MaxRestrictions}

\* Vehicle with a list of restrictions on ofType; ofType is undeclared, an
\* object property of Vehicle (functional or not), or a datatype property.
RestrictedModel(restrictions, declared) ==
    OntologyModel(
        <<[OntologyClass(Vehicle, <<>>, <<>>, restrictions, EmptyDict) EXCEPT !.label = "Vehicle"],
          OntologyClass(VehicleType, <<>>, <<>>, <<>>, EmptyDict)>>,
        IF declared \in {"object", "functional"}
        THEN <<ObjectProperty(ofType, <<Vehicle>>, <<VehicleType>>, NoUri,
                              declared = "functional", FALSE, FALSE, FALSE)>>
        ELSE <<>>,
        IF declared = "datatype"
        THEN <<DatatypeProperty(ofType, <<Vehicle>>, <<Xsd("integer")>>, FALSE)>>
        ELSE <<>>,
        EmptyDict)

\* RollingStock with the subclasses Vehicle and Formation, which declare
\* each other disjoint, or only one does, or neither.
DisjointModel(declared) ==
    OntologyModel(
        <<OntologyClass(RollingStock, <<>>, <<>>, <<>>, EmptyDict),
          OntologyClass(Vehicle, <<RollingStock>>,
                        IF declared \in {"both", "one"} THEN <<Formation>> ELSE <<>>,
                        <<>>, EmptyDict),
          OntologyClass(Formation, <<RollingStock>>,
                        IF declared = "both" THEN <<Vehicle>> ELSE <<>>,
                        <<>>, EmptyDict)>>,
        <<>>, <<>>, EmptyDict)

\* An enumeration class, in an ontology with a version annotation.
EnumModel ==
    OntologyModel(
        <<OntologyClass(Uri(<<"Colour">>), <<>>, <<>>, <<>>,
                        ("enumeration" :> <<"red", "green">>))>>,
        <<>>, <<>>, ("versionInfo" :> "1.0"))

composedOf == Uri(<<"composedOf">>)
partOf == Uri(<<"partOf">>)
Wagon == Uri(<<"Wagon">>)

\* The ranges composedOf is declared with: a class of the model, two of
\* them, one of them with a class the ontology only mentions, or none.
ComposedOfRanges == {<<RollingStock>>, <<RollingStock, Formation>>, <<RollingStock, Wagon>>, <<>>}

\* composedOf (Formation -> range) and its inverse partOf, which declares
\* no domain.
InverseModel(range, functional) ==
    OntologyModel(
        <<OntologyClass(RollingStock, <<>>, <<>>, <<>>, EmptyDict),
          OntologyClass(Formation, <<RollingStock>>, <<>>, <<>>, EmptyDict)>>,
        <<ObjectProperty(composedOf, <<Formation>>, range, partOf, FALSE, FALSE, FALSE, FALSE),
          ObjectProperty(partOf, <<>>, <<Formation>>, composedOf, functional, FALSE, FALSE, FALSE)>>,
        <<>>, EmptyDict)

EngineModels ==
    {RestrictedModel(rs, d) : rs \in RestrictionLists,
                              d \in {"none", "object", "functional", "datatype"}}
    \cup {DisjointModel(d) : d \in {"both", "one", "neither"}}
    \cup {InverseModel(r, f) : r \in ComposedOfRanges, f \in BOOLEAN}
    \cup {EnumModel, NoModel}

\* The models of a run of several calls.
CallModels ==
    {RestrictedModel(<<ValueRestriction(ofType, "someValuesFrom", VehicleType)>>, "object"),
     DisjointModel("both"), EnumModel, NoModel}

Configs ==
    {DefaultConfig,
     [DefaultConfig EXCEPT !.rules["disjoint_classes"] = TRUE],
     [DefaultConfig EXCEPT !.rules["class_to_object"] = FALSE],
     [DefaultConfig EXCEPT !.rules["object_property"] = FALSE,
                           !.rules["datatype_property"] = FALSE],
     [DefaultConfig EXCEPT !.placement = "comment"]}


\* --------------------------------------------------------- specifications

\* generate() on a new generator
GenInit ==
    /\ ontology \in GenOntologies
    /\ individuals = <<>>
    /\ individual_classes = <<>>
    /\ graph = {}
    /\ gen_pc = "new"
    /\ work = <<>>
    /\ abox_graph = {}
    /\ class_definitions = EmptyDict
    /\ reference_style = "reference"
    /\ converted_cache = EmptyDict
    /\ stack = <<>>
    /\ todo = <<>>
    /\ instances = <<>>
    /\ conv_pc = "idle"
    /\ config = [e \in Engines |-> DefaultConfig]
    /\ rules = [e \in Engines |-> InitializeRules(DefaultConfig)]
    /\ schema_builder = [e \in Engines |-> SchemaBuilder]
    /\ calls = [t \in Threads |-> IdleCall(t, <<>>)]
    /\ returned = <<>>
    /\ toggled = [id \in ToggledIds |-> ""]
    /\ validation = [pc |-> "idle"]
    /\ reasoner = [pc |-> "idle"]
    /\ parser = [pc |-> "idle"]

GenNext ==
    \/ GenerateIndividuals
    \/ GenerateDatatypeProperty
    \/ GenerateObjectProperty
    \/ GenerateReturn

SpecGen == GenInit /\ [][GenNext]_vars

\* convert() on a new converter
ConvInit ==
    /\ ontology = [classes |-> <<>>, object_properties |-> <<>>, datatype_properties |-> <<>>]
    /\ individuals = <<>>
    /\ individual_classes = <<>>
    /\ graph = {}
    /\ gen_pc = "idle"
    /\ work = <<>>
    /\ abox_graph \in ConvGraphs
    /\ class_definitions \in {("A" :> [properties |-> (KNOWS :> ps)]) : ps \in PropertySchemas}
    /\ reference_style \in {"inline", "reference"}
    /\ converted_cache = EmptyDict
    /\ stack = <<>>
    /\ todo = <<>>
    /\ instances = <<>>
    /\ conv_pc = "new"
    /\ config = [e \in Engines |-> DefaultConfig]
    /\ rules = [e \in Engines |-> InitializeRules(DefaultConfig)]
    /\ schema_builder = [e \in Engines |-> SchemaBuilder]
    /\ calls = [t \in Threads |-> IdleCall(t, <<>>)]
    /\ returned = <<>>
    /\ toggled = [id \in ToggledIds |-> ""]
    /\ validation = [pc |-> "idle"]
    /\ reasoner = [pc |-> "idle"]
    /\ parser = [pc |-> "idle"]

ConvNext ==
    \/ ConvertBegin
    \/ ConvertIndividual
    \/ ConvertValue
    \/ ReturnIndividual
    \/ ConvertReturn

SpecConv == ConvInit /\ [][ConvNext]_vars

\* One engine, one thread: a single transform() of any of the models, or
\* up to MaxCalls calls in a row over the models of CallModels.
EngineInit ==
    /\ ontology = [classes |-> <<>>, object_properties |-> <<>>, datatype_properties |-> <<>>]
    /\ individuals = <<>>
    /\ individual_classes = <<>>
    /\ graph = {}
    /\ gen_pc = "idle"
    /\ work = <<>>
    /\ abox_graph = {}
    /\ class_definitions = EmptyDict
    /\ reference_style = "reference"
    /\ converted_cache = EmptyDict
    /\ stack = <<>>
    /\ todo = <<>>
    /\ instances = <<>>
    /\ conv_pc = "idle"
    /\ \E cfg \in Configs :
          /\ config = [e \in Engines |-> cfg]
          /\ rules = [e \in Engines |-> InitializeRules(cfg)]
    /\ schema_builder = [e \in Engines |-> SchemaBuilder]
    /\ \E models \in {<<m>> : m \in EngineModels}
                     \cup UNION {[1..n -> CallModels] : n \in 2..MaxCalls} :
          calls = [t \in Threads |-> IdleCall(1, IF t = 1 THEN models ELSE <<>>)]
    /\ returned = <<>>
    /\ toggled = [id \in ToggledIds |-> ""]
    /\ validation = [pc |-> "idle"]
    /\ reasoner = [pc |-> "idle"]
    /\ parser = [pc |-> "idle"]

EngineNext ==
    \E t \in Threads :
        \/ TransformBegin(t)
        \/ ApplyRule(t)
        \/ TransformReturn(t)

SpecEngine == EngineInit /\ [][EngineNext]_vars

\* Two threads, each in one transform() call, on one shared engine or on
\* an engine each.
ConcInit ==
    /\ ontology = [classes |-> <<>>, object_properties |-> <<>>, datatype_properties |-> <<>>]
    /\ individuals = <<>>
    /\ individual_classes = <<>>
    /\ graph = {}
    /\ gen_pc = "idle"
    /\ work = <<>>
    /\ abox_graph = {}
    /\ class_definitions = EmptyDict
    /\ reference_style = "reference"
    /\ converted_cache = EmptyDict
    /\ stack = <<>>
    /\ todo = <<>>
    /\ instances = <<>>
    /\ conv_pc = "idle"
    /\ \E cfg \in {DefaultConfig, [DefaultConfig EXCEPT !.placement = "comment"]} :
          /\ config = [e \in Engines |-> cfg]
          /\ rules = [e \in Engines |-> InitializeRules(cfg)]
    /\ schema_builder = [e \in Engines |-> SchemaBuilder]
    /\ \E m1 \in CallModels, m2 \in CallModels, e2 \in Engines :
          calls = [t \in Threads |-> IF t = 1 THEN IdleCall(1, <<m1>>) ELSE IdleCall(e2, <<m2>>)]
    /\ returned = <<>>
    /\ toggled = [id \in ToggledIds |-> ""]
    /\ validation = [pc |-> "idle"]
    /\ reasoner = [pc |-> "idle"]
    /\ parser = [pc |-> "idle"]

SpecConc == ConcInit /\ [][EngineNext]_vars

\* ------------------------------------------------- claims on the generator

GeneratedIndividuals == Range([i \in DOMAIN individual_classes |-> individual_classes[i][1]])

FunctionalProps ==
    {p.uri : p \in {q \in Range(ontology.object_properties) : q.functional}}
    \cup {p.uri : p \in {q \in Range(ontology.datatype_properties) : q.functional}}

\* C1: in the graph generate() returns, every individual has at most one
\* asserted value for every functional property (object or datatype),
\* whether the value came from its own step or from inverse mirroring.
C1_FunctionalAtMostOne ==
    gen_pc = "done" =>
        \A ind \in GeneratedIndividuals : \A p \in FunctionalProps :
            Cardinality(Objects(graph, ind, p)) <= 1

\* The exceptions C2 allows for a missing mirror (b, Q, a) of (a, P, b).
MirrorBlocked(a, P, b) ==
    LET Q == P.inverse_of IN
    \/ (P.irreflexive /\ a = b)
    \/ (P.asymmetric /\ <<b, P.uri, a>> \in graph /\ a # b)
    \/ /\ HasObjectProp(ontology, Q)
       /\ LET inv == ObjectPropByUri(ontology, Q) IN
          \/ (inv.functional /\ Objects(graph, b, Q) # {})
          \/ (inv.irreflexive /\ a = b)
          \/ (inv.asymmetric /\ <<a, Q, b>> \in graph)

\* C2: in the graph generate() returns, every edge (a, P, b) of an object
\* property P with a declared inverse Q has its mirror (b, Q, a), unless the
\* mirror was blocked by Q being functional and filled, or by an irreflexive
\* or asymmetric flag; mirrors themselves included.
C2_EveryEdgeMirrored ==
    gen_pc = "done" =>
        \A P \in Range(ontology.object_properties) : \A a, b \in GeneratedIndividuals :
            (P.inverse_of # NONE /\ <<a, P.uri, b>> \in graph)
                => (<<b, P.inverse_of, a>> \in graph \/ MirrorBlocked(a, P, b))

\* ------------------------------------------------- claims on the converter

\* C3: convert() with reference_style "inline" ends for every graph, cyclic
\* ones included: the cache keeps an individual from being converted inside
\* its own conversion, so the recursion never runs out of stack.
C3_InlineCacheStopsRecursion ==
    reference_style = "inline" =>
        /\ \A i, j \in DOMAIN stack : i # j => stack[i].uri # stack[j].uri
        /\ conv_pc # "recursion_error"

\* ---------------------------------------------------- claims on the engine

\* C4: whatever calls came before on the engine, transform returns for a
\* model the document a new engine with the same configuration returns for
\* it, and no step changes a document that was returned.
C4_TransformStartsFromReset ==
    /\ [](\A i \in DOMAIN returned :
             returned[i].doc = FreshTransform(returned[i].ontology, returned[i].config))
    /\ [][\A i \in DOMAIN returned : returned'[i] = returned[i]]_vars

\* Two calls in a row on one engine, the first for a model with classes and
\* the second for a model without.
C4_SecondCallReturned ==
    /\ Len(returned) = 2
    /\ returned[1].engine = returned[2].engine
    /\ "definitions" \in DOMAIN returned[1].doc
    /\ "definitions" \notin DOMAIN returned[2].doc

\* C5: when each of two concurrent transform calls has an engine of its
\* own, every interleaving returns for each call the document of running
\* it alone.
C5_EnginePerCallIsSequential ==
    calls[1].engine # calls[2].engine =>
        \A i \in DOMAIN returned :
            returned[i].doc = FreshTransform(returned[i].ontology, returned[i].config)

\* Two calls for different models, each on its own engine, interleaved:
\* one has returned while the other is in the middle of its rules.
C5_InterleavedOnTwoEngines ==
    /\ calls[1].engine # calls[2].engine
    /\ Len(returned) = 1
    /\ \E t \in Threads :
          /\ calls[t].pc = "rules"
          /\ calls[t].i > 3
          /\ calls[t].ontology # returned[1].ontology
          /\ calls[t].ontology.classes # <<>>
          /\ returned[1].ontology.classes # <<>>

\* C5, the unsafe half: on one shared engine an interleaving returns a
\* document that differs from the one of running the call alone.
C5_SharedEngineDiffers ==
    /\ calls[1].engine = calls[2].engine
    /\ \E i \in DOMAIN returned :
          returned[i].doc # FreshTransform(returned[i].ontology, returned[i].config)

\* The rules that write definitions and restrictions are enabled.
Restricting(cfg) ==
    /\ InitializeRules(cfg)["class_to_object"]
    /\ InitializeRules(cfg)["class_restrictions"]

ExactlyOne(r) ==
    /\ r.kind = "cardinality"
    /\ \/ r.exact_cardinality = 1
       \/ (r.min_cardinality = 1 /\ r.max_cardinality = 1)

IsArrayTyped(schema) == "type" \in DOMAIN schema /\ schema["type"] = "array"

\* C6: in every document transform returns, a property P restricted to
\* exactly one value (exact 1, or min 1 with max 1) on class C is in
\* definitions.C.properties with a schema that is not array-typed, and is
\* in definitions.C.required, whatever the property rules write.
C6_ExactlyOneIsScalarAndRequired ==
    \A i \in DOMAIN returned :
        Restricting(returned[i].config) =>
            \A c \in Range(returned[i].ontology.classes) : \A r \in Range(c.restrictions) :
                ExactlyOne(r) =>
                    LET def == returned[i].doc["definitions"][GetClassName(c.uri)]
                        P == GetPropertyName(r.property_uri)
                    IN /\ P \in DOMAIN def["properties"]
                       /\ ~IsArrayTyped(def["properties"][P])
                       /\ "required" \in DOMAIN def
                       /\ P \in Range(def["required"])

\* What the class_restrictions rule has just returned to thread t.
RestrictionResults(t) ==
    IF calls[t].pc = "rules" /\ calls[t].last_rule = "class_restrictions"
       /\ ~calls[t].result.is_none
    THEN Range(calls[t].result.value) ELSE {}

HasConstraints(t, c) == \E cr \in RestrictionResults(t) : cr["class"] = GetClassName(c.uri)
ConstraintsOf(t, c) == CHOOSE cr \in RestrictionResults(t) : cr["class"] = GetClassName(c.uri)

IsRequired(cr, P) == "required" \in DOMAIN cr /\ P \in Range(cr["required"])

\* The schema the filler F of a value restriction stands for.
FillerSchema(F) ==
    IF F = Xsd("integer") THEN [type |-> "integer"]
    ELSE ("$ref" :> (<<"#", "/", "definitions", "/">> \o SubSeq(F, Len(NS) + 1, Len(F))))

SomeValuesFromShape(F) ==
    ("type" :> "array") @@ ("minItems" :> 1) @@ ("items" :> FillerSchema(F))

IsSomeValuesFrom(r) == r.kind = "value" /\ r.restriction_type = "someValuesFrom"
IsAllValuesFrom(r) == r.kind = "value" /\ r.restriction_type = "allValuesFrom"

\* The restrictions of class c on the property of its k-th restriction.
OnSameProperty(c, k) ==
    {j \in DOMAIN c.restrictions : c.restrictions[j].property_uri = c.restrictions[k].property_uri}

C8_OnlySomeValuesFromEndToEnd ==
    \A i \in DOMAIN returned :
        Restricting(returned[i].config) =>
            \A c \in Range(returned[i].ontology.classes) :
                (Len(c.restrictions) = 1 /\ IsSomeValuesFrom(c.restrictions[1])) =>
                    LET def == returned[i].doc["definitions"][GetClassName(c.uri)]
                        P == GetPropertyName(c.restrictions[1].property_uri)
                    IN /\ "required" \in DOMAIN def
                       /\ def["required"] = <<P>>
                       /\ P \in DOMAIN def["properties"]
                       /\ "minItems" \in DOMAIN def["properties"][P]
                       /\ def["properties"][P]["minItems"] = 1

\* Class c has no cardinality restriction on the property of its k-th
\* restriction.
NoCardinalityOn(c, k) == \A j \in OnSameProperty(c, k) : c.restrictions[j].kind # "cardinality"

\* C9 as stated: for every allValuesFrom restriction on P with filler F on
\* a class without cardinality restriction on P, the class schema has
\* properties.P.type = array with items referencing F, and P is not in
\* required.
C9_AllValuesFromOptionalArray ==
    \A t \in Threads : calls[t].pc = "rules" /\ calls[t].last_rule = "class_restrictions" =>
        \A c \in Range(calls[t].ontology.classes) : \A k \in DOMAIN c.restrictions :
            (IsAllValuesFrom(c.restrictions[k]) /\ NoCardinalityOn(c, k)) =>
                LET P == GetPropertyName(c.restrictions[k].property_uri) IN
                /\ HasConstraints(t, c)
                /\ IsArrayTyped(ConstraintsOf(t, c)["properties"][P])
                /\ ConstraintsOf(t, c)["properties"][P]["items"] = FillerSchema(c.restrictions[k].filler)
                /\ ~IsRequired(ConstraintsOf(t, c), P)

\* C9, amended: for every allValuesFrom restriction on P on a class
\* without cardinality restriction on P, properties.P.type = array; P is
\* not in required unless the class has a someValuesFrom restriction on P;
\* the items reference the filler of the class's last allValuesFrom or
\* someValuesFrom restriction on P.
C9_AllValuesFromLastFillerWins ==
    \A t \in Threads : calls[t].pc = "rules" /\ calls[t].last_rule = "class_restrictions" =>
        \A c \in Range(calls[t].ontology.classes) : \A k \in DOMAIN c.restrictions :
            (IsAllValuesFrom(c.restrictions[k]) /\ NoCardinalityOn(c, k)) =>
                LET P == GetPropertyName(c.restrictions[k].property_uri)
                    fillers == {j \in OnSameProperty(c, k) :
                                   IsAllValuesFrom(c.restrictions[j]) \/ IsSomeValuesFrom(c.restrictions[j])}
                    last == CHOOSE j \in fillers : \A m \in fillers : m <= j
                IN /\ HasConstraints(t, c)
                   /\ IsArrayTyped(ConstraintsOf(t, c)["properties"][P])
                   /\ ConstraintsOf(t, c)["properties"][P]["items"] = FillerSchema(c.restrictions[last].filler)
                   /\ IsRequired(ConstraintsOf(t, c), P)
                        <=> \E j \in OnSameProperty(c, k) : IsSomeValuesFrom(c.restrictions[j])

\* The rule has returned for a class with two allValuesFrom restrictions
\* on P with different fillers, and the items reference the second.
C9_AllValuesFromProcessed ==
    \E t \in Threads : \E c \in Range(calls[t].ontology.classes) :
        /\ HasConstraints(t, c)
        /\ Len(c.restrictions) = 2
        /\ IsAllValuesFrom(c.restrictions[1])
        /\ IsAllValuesFrom(c.restrictions[2])
        /\ c.restrictions[1].filler # c.restrictions[2].filler
        /\ ConstraintsOf(t, c)["properties"][GetPropertyName(c.restrictions[1].property_uri)]["items"]
               = FillerSchema(c.restrictions[2].filler)
        /\ ~IsRequired(ConstraintsOf(t, c), GetPropertyName(c.restrictions[1].property_uri))

DirectSubclasses(o, c) == {d \in Range(o.classes) : c.uri \in Range(d.super_classes)}

PairwiseDisjoint(S) == \A x, y \in S : x # y => y.uri \in Range(x.disjoint_with)

\* C10: in every document transform returns, a class C with two or more
\* direct subclasses that are pairwise disjoint has, with disjoint_classes
\* enabled in the configuration, a oneOf in definitions.C with a $ref to
\* each of them, and with disjoint_classes disabled no oneOf.
C10_DisjointSubclassesOneOf ==
    \A i \in DOMAIN returned :
        InitializeRules(returned[i].config)["class_to_object"] =>
            \A c \in Range(returned[i].ontology.classes) :
                LET subs == DirectSubclasses(returned[i].ontology, c)
                    def == returned[i].doc["definitions"][GetClassName(c.uri)]
                IN (Cardinality(subs) >= 2 /\ PairwiseDisjoint(subs)) =>
                      IF returned[i].config.rules["disjoint_classes"]
                      THEN /\ "oneOf" \in DOMAIN def
                           /\ \A d \in subs : CreateRef(GetClassName(d.uri)) \in Range(def["oneOf"])
                      ELSE "oneOf" \notin DOMAIN def

\* C11: in every document transform returns, a class with restrictions has
\* a definition that carries every restricted property, and a class in the
\* domain of a declared property has a definition that carries the
\* property, also when no rule had written the definition before.
C11_MissingDefinitionIsCreated ==
    \A i \in DOMAIN returned :
        LET o == returned[i].ontology
            doc == returned[i].doc
            enabled == InitializeRules(returned[i].config)
            Carries(class_uri, property_uri) ==
                /\ "definitions" \in DOMAIN doc
                /\ GetClassName(class_uri) \in DOMAIN doc["definitions"]
                /\ "properties" \in DOMAIN doc["definitions"][GetClassName(class_uri)]
                /\ GetPropertyName(property_uri)
                       \in DOMAIN doc["definitions"][GetClassName(class_uri)]["properties"]
        IN /\ enabled["class_restrictions"] =>
                \A c \in Range(o.classes) : \A r \in Range(c.restrictions) :
                    Carries(c.uri, r.property_uri)
           /\ enabled["object_property"] =>
                \A p \in Range(o.object_properties) : \A d \in Range(p.domain) :
                    Carries(d, p.uri)
           /\ enabled["datatype_property"] =>
                \A p \in Range(o.datatype_properties) : \A d \in Range(p.domain) :
                    Carries(d, p.uri)

\* C12: in every document transform returns, an object property P that
\* declares no domain and whose inverse Q declares a range is in
\* definitions.R.properties of every class R of Q's range, and is not in
\* definitions.R.required.
C12_DomainFromInverseRange ==
    \A i \in DOMAIN returned :
        LET o == returned[i].ontology
            doc == returned[i].doc
            enabled == InitializeRules(returned[i].config)
        IN (enabled["class_to_object"] /\ enabled["object_property"]) =>
              \A P \in Range(o.object_properties) : \A Q \in Range(o.object_properties) :
                  (P.domain = <<>> /\ P.inverse_of = Q.uri) =>
                      \A k \in DOMAIN Q.range :
                          /\ "definitions" \in DOMAIN doc
                          /\ GetClassName(Q.range[k]) \in DOMAIN doc["definitions"]
                          /\ LET def == doc["definitions"][GetClassName(Q.range[k])] IN
                             /\ GetPropertyName(P.uri) \in DOMAIN def["properties"]
                             /\ ~IsRequired(def, GetPropertyName(P.uri))

\* ------------------------------------------ ABoxToJSONConverter.validate
\* abox_to_json.py, lines 334-474.  Type names are plain strings, as in the
\* converter.

\* prop_schema['$ref'].split('/')[-1]
RefType(schema) == schema["$ref"][Len(schema["$ref"])]

\* _has_circular_reference, lines 357-370: a property of the definition, or
\* its array items, carries a $ref to type_name
PropertyRefersTo(class_def, type_name) ==
    /\ "properties" \in DOMAIN class_def
    /\ \E prop_name \in DOMAIN class_def["properties"] :
          LET prop_schema == class_def["properties"][prop_name] IN
          \/ ("$ref" \in DOMAIN prop_schema /\ RefType(prop_schema) = type_name)
          \/ /\ "items" \in DOMAIN prop_schema
             /\ "$ref" \in DOMAIN prop_schema["items"]
             /\ RefType(prop_schema["items"]) = type_name

\* _has_circular_reference
RECURSIVE HasCircularReference(_,_,_)
HasCircularReference(defs, type_name, visited) ==
    IF type_name \in visited THEN TRUE
    ELSE IF type_name \notin DOMAIN defs THEN FALSE
    ELSE LET class_def == defs[type_name] IN
         \/ PropertyRefersTo(class_def, type_name)
         \/ /\ "allOf" \in DOMAIN class_def
            /\ \E k \in DOMAIN class_def["allOf"] :
                  /\ "$ref" \in DOMAIN class_def["allOf"][k]
                  /\ HasCircularReference(defs, RefType(class_def["allOf"][k]),
                                          visited \cup {type_name})

\* What jsonschema.validate(instance, schema) does with an instance: it
\* returns, or raises one of the exceptions validate() catches.  An
\* instance of json_instances is represented by that outcome.
Outcomes == {"valid", "ValidationError", "RecursionError", "Exception"}

\* Most instances in the list of one type.
MaxInstances == 2

InstanceLists == UNION {[1..n -> Outcomes] : n \in 1..MaxInstances}

\* validate, lines 396-402
NewResults ==
    [valid |-> TRUE, errors |-> <<>>, warnings |-> <<>>, validated_count |-> 0, total_count |-> 0]

\* validate, lines 441-467: the loop over the instances of a type that is
\* validated
RECURSIVE ValidateInstances(_,_,_,_)
ValidateInstances(results, type_name, outcomes, i) ==
    IF i > Len(outcomes) THEN results
    ELSE LET counted == [results EXCEPT !.total_count = @ + 1]
             next ==
                 CASE outcomes[i] = "valid" -> [counted EXCEPT !.validated_count = @ + 1]
                   [] outcomes[i] = "RecursionError" ->
                        [counted EXCEPT !.validated_count = @ + 1,
                                        !.warnings = Append(@, [type |-> type_name,
                                                                instance_index |-> i - 1,
                                                                warning |-> "skipped"])]
                   [] outcomes[i] = "ValidationError" ->
                        [counted EXCEPT !.valid = FALSE,
                                        !.errors = Append(@, [type |-> type_name,
                                                              instance_index |-> i - 1,
                                                              error |-> "validation"])]
                   [] OTHER ->
                        [counted EXCEPT !.valid = FALSE,
                                        !.errors = Append(@, [type |-> type_name,
                                                              instance_index |-> i - 1,
                                                              error |-> "unexpected"])]
         IN ValidateInstances(next, type_name, outcomes, i + 1)

\* The loop body without the branches that skip a type: every instance goes
\* to jsonschema.
ValidateEveryInstance(results, defs, type_name, outcomes) ==
    ValidateInstances(results, type_name, outcomes, 1)

\* validate, lines 409-467: the body of the loop for one type
ValidateOneType(results, defs, type_name, outcomes) ==
    IF type_name \notin DOMAIN defs
    THEN [results EXCEPT !.valid = FALSE,
                         !.errors = Append(@, [type |-> type_name, instance_index |-> -1,
                                               error |-> "no schema"])]
    ELSE IF HasCircularReference(defs, type_name, {})
    THEN [results EXCEPT !.warnings = Append(@, [type |-> type_name, instance_index |-> -1,
                                                 warning |-> "circular"]),
                         !.validated_count = @ + Len(outcomes),
                         !.total_count = @ + Len(outcomes)]
    ELSE ValidateInstances(results, type_name, outcomes, 1)

\* validate(json_instances), up to the loop
ValidateBegin ==
    /\ validation.pc = "new"
    /\ validation' = [validation EXCEPT !.pc = "run", !.todo = validation.json_instances,
                                        !.results = NewResults]
    /\ UNCHANGED <<genVars, convVars, engVars, reasoner, parser, toggled>>

\* validate: one pass of the loop over json_instances.items()
ValidateType ==
    /\ validation.pc = "run"
    /\ validation.todo # <<>>
    /\ validation' = [validation EXCEPT
                         !.todo = Tail(@),
                         !.results = ValidateOneType(@, class_definitions,
                                                     Head(validation.todo).type,
                                                     Head(validation.todo).instances)]
    /\ UNCHANGED <<genVars, convVars, engVars, reasoner, parser, toggled>>

\* validate: return results
ValidateReturn ==
    /\ validation.pc = "run"
    /\ validation.todo = <<>>
    /\ validation' = [validation EXCEPT !.pc = "done"]
    /\ UNCHANGED <<genVars, convVars, engVars, reasoner, parser, toggled>>

FORMATION == "Formation"
VEHICLE == "Vehicle"
PERSON == "Person"
GHOST == "Ghost"

\* An object-property schema as ObjectPropertyRule writes it
OneOfRef(name) == ("oneOf" :> <<RefTo(name), IdStub>>)

ArrayOf(items) == ("type" :> "array") @@ ("items" :> items)

\* A definition with at most one property and at most one superclass; NONE
\* stands for "none".
Definition(has_property, prop_name, prop_schema, has_super, super) ==
    ("type" :> "object")
    @@ ("properties" :> (IF has_property THEN (prop_name :> prop_schema) ELSE EmptyDict))
    @@ (IF has_super THEN ("allOf" :> <<RefTo(super), [type |-> "object"]>>) ELSE EmptyDict)

FormationDefinitions ==
    {Definition(hp, "composedOf", ps, hs, VEHICLE) :
        hp \in BOOLEAN, hs \in BOOLEAN,
        ps \in {RefTo(FORMATION), ArrayOf(RefTo(FORMATION)), ArrayOf(OneOfRef(FORMATION))}}

VehicleDefinitions ==
    {Definition(hp, "partOf", ps, hs, sup) :
        hp \in BOOLEAN, hs \in BOOLEAN, sup \in {FORMATION, PERSON},
        ps \in {RefTo(FORMATION), ArrayOf(RefTo(VEHICLE))}}

PersonDefinition == Definition(TRUE, "name", [type |-> "string"], FALSE, PERSON)

\* The schemas validate() runs on: Formation, Vehicle and Person, with
\* references among them; Ghost is a type without definition.
ValidationSchemas ==
    {(FORMATION :> f) @@ (VEHICLE :> v) @@ (PERSON :> PersonDefinition) :
        f \in FormationDefinitions, v \in VehicleDefinitions}

\* json_instances: the types of any subset, each with the same list of
\* instances.
InstancesByType ==
    {[i \in DOMAIN ts |-> [type |-> ts[i], instances |-> l]] :
        ts \in {SelectSeq(<<FORMATION, VEHICLE, PERSON, GHOST>>, LAMBDA t : t \in S) :
                   S \in SUBSET {FORMATION, VEHICLE, PERSON, GHOST}},
        l \in InstanceLists}

\* validate() on a converter built from a schema
ValidateInit ==
    /\ ontology = [classes |-> <<>>, object_properties |-> <<>>, datatype_properties |-> <<>>]
    /\ individuals = <<>>
    /\ individual_classes = <<>>
    /\ graph = {}
    /\ gen_pc = "idle"
    /\ work = <<>>
    /\ abox_graph = {}
    /\ class_definitions \in ValidationSchemas
    /\ reference_style = "reference"
    /\ converted_cache = EmptyDict
    /\ stack = <<>>
    /\ todo = <<>>
    /\ instances = <<>>
    /\ conv_pc = "idle"
    /\ config = [e \in Engines |-> DefaultConfig]
    /\ rules = [e \in Engines |-> InitializeRules(DefaultConfig)]
    /\ schema_builder = [e \in Engines |-> SchemaBuilder]
    /\ calls = [t \in Threads |-> IdleCall(t, <<>>)]
    /\ returned = <<>>
    /\ toggled = [id \in ToggledIds |-> ""]
    /\ validation \in {[pc |-> "new", json_instances |-> ji, todo |-> <<>>, results |-> NewResults] :
                          ji \in InstancesByType}
    /\ reasoner = [pc |-> "idle"]
    /\ parser = [pc |-> "idle"]

ValidateNext ==
    \/ ValidateBegin
    \/ ValidateType
    \/ ValidateReturn

SpecValidate == ValidateInit /\ [][ValidateNext]_vars

\* The types the allOf list of a definition refers to
AllOfParents(defs, type_name) ==
    IF type_name \in DOMAIN defs /\ "allOf" \in DOMAIN defs[type_name]
    THEN {RefType(defs[type_name]["allOf"][k]) :
             k \in {j \in DOMAIN defs[type_name]["allOf"] : "$ref" \in DOMAIN defs[type_name]["allOf"][j]}}
    ELSE {}

\* The types reached from type_name by following allOf one or more times
RECURSIVE AllOfAncestors(_,_,_)
AllOfAncestors(defs, frontier, seen) ==
    LET step == UNION {AllOfParents(defs, t) : t \in frontier} \ seen
    IN IF step = {} THEN seen ELSE AllOfAncestors(defs, step, seen \cup step)

\* A property of the type, the array items of a property of the type, or an
\* allOf ancestor of the type refers back to the type.
RefersBackToItself(defs, type_name) ==
    LET ancestors == AllOfAncestors(defs, {type_name}, {}) IN
    \/ PropertyRefersTo(defs[type_name], type_name)
    \/ type_name \in ancestors
    \/ \E a \in ancestors \cap DOMAIN defs : PropertyRefersTo(defs[a], type_name)

\* C13: _has_circular_reference(T) is true exactly when a property of T,
\* the array items of a property of T, or an allOf ancestor of T refers back
\* to T; it is false for a type that only refers to another type, whatever
\* that other type refers to.
C13_CircularExactlyWhenSelfReferential ==
    \A type_name \in DOMAIN class_definitions :
        HasCircularReference(class_definitions, type_name, {})
            <=> RefersBackToItself(class_definitions, type_name)

\* C13, the half that holds: a property or array items that $ref the type
\* itself are always detected.
C13_DirectSelfReferenceDetected ==
    \A type_name \in DOMAIN class_definitions :
        PropertyRefersTo(class_definitions[type_name], type_name)
            => HasCircularReference(class_definitions, type_name, {})

\* C13: a type whose superclass refers to itself is reported circular
\* although nothing refers back to the type.
C13_ReportedWithoutSelfReference ==
    \E r \in Range(validation.results.warnings) :
        /\ r.warning = "circular"
        /\ ~RefersBackToItself(class_definitions, r.type)

\* The entries of a list of errors or warnings that name a type
Naming(entries, type_name) == {i \in DOMAIN entries : entries[i].type = type_name}

\* C14: validate() skips every type _has_circular_reference detects: the
\* pass over such a type appends exactly one warning naming it, adds no
\* error, leaves valid as it was and adds the number of its instances to both
\* validated_count and total_count; in the returned results the type has one
\* warning and no error.
C14_CircularTypeSkipped ==
    /\ [](validation.pc = "done" =>
            \A k \in DOMAIN validation.json_instances :
                LET type_name == validation.json_instances[k].type IN
                (type_name \in DOMAIN class_definitions
                     /\ HasCircularReference(class_definitions, type_name, {}))
                  => /\ Cardinality(Naming(validation.results.warnings, type_name)) = 1
                     /\ Naming(validation.results.errors, type_name) = {})
    /\ [][(/\ validation.pc = "run"
           /\ validation.todo # <<>>
           /\ Head(validation.todo).type \in DOMAIN class_definitions
           /\ HasCircularReference(class_definitions, Head(validation.todo).type, {}))
          => LET type_name == Head(validation.todo).type
                 n == Len(Head(validation.todo).instances)
                 before == validation.results
                 after == validation'.results
             IN /\ after.valid = before.valid
                /\ after.errors = before.errors
                /\ Len(after.warnings) = Len(before.warnings) + 1
                /\ SubSeq(after.warnings, 1, Len(before.warnings)) = before.warnings
                /\ after.warnings[Len(after.warnings)].type = type_name
                /\ after.validated_count = before.validated_count + n
                /\ after.total_count = before.total_count + n]_vars

\* C14: validate() returned valid for a self-referential type one of whose
\* instances jsonschema would have rejected.
C14_SkippedInvalidInstance ==
    /\ validation.pc = "done"
    /\ validation.results.valid
    /\ \E k \in DOMAIN validation.json_instances :
          /\ validation.json_instances[k].type \in DOMAIN class_definitions
          /\ HasCircularReference(class_definitions, validation.json_instances[k].type, {})
          /\ Len(validation.json_instances[k].instances) = 2
          /\ "ValidationError" \in Range(validation.json_instances[k].instances)
          /\ validation.results.total_count >= 2

\* ------------------------------------------ transform, then convert
\* The schema a transform() returned is handed to a new ABoxToJSONConverter,
\* which converts an A-box whose property values are literals.  URIs are
\* the token sequences of the engine; a JSON value carries its JSON type.

JInt(n) == [json |-> "integer", int |-> n, str |-> <<>>, items |-> <<>>]
JNumber(n) == [json |-> "number", int |-> n, str |-> <<>>, items |-> <<>>]
JBool(b) == [json |-> "boolean", int |-> IF b THEN 1 ELSE 0, str |-> <<>>, items |-> <<>>]
JString(chars) == [json |-> "string", int |-> 0, str |-> chars, items |-> <<>>]
JArray(items) == [json |-> "array", int |-> 0, str |-> <<>>, items |-> items]

RdfUri(name) ==
    <<"http", ":", "/", "/", "www.w3.org", "/", "1999", "/", "02", "/", "22", "-", "rdf", "-", "syntax", "-", "ns", "#", name>>
RdfsUri(name) ==
    <<"http", ":", "/", "/", "www.w3.org", "/", "2000", "/", "01", "/", "rdf", "-", "schema", "#", name>>

\* A node in object position: a URIRef, or a Literal with the characters
\* of its lexical form.
UriNode(uri) == [is_literal |-> FALSE, uri |-> uri, lexical |-> <<>>]
LiteralNode(lexical) == [is_literal |-> TRUE, uri |-> <<>>, lexical |-> lexical]

Triple(s, p, o) == [s |-> s, p |-> p, o |-> o]

DigitValue ==
    ("0" :> 0) @@ ("1" :> 1) @@ ("2" :> 2) @@ ("3" :> 3) @@ ("4" :> 4)
    @@ ("5" :> 5) @@ ("6" :> 6) @@ ("7" :> 7) @@ ("8" :> 8) @@ ("9" :> 9)

\* int(value) on a literal whose lexical form is a string of digits
RECURSIVE ParseInt(_,_)
ParseInt(chars, acc) ==
    IF chars = <<>> THEN acc ELSE ParseInt(Tail(chars), 10 * acc + DigitValue[Head(chars)])

\* _convert_value, lines 254-267: a Literal is converted by the "type" of
\* the schema it is converted under; bool() of a literal is false only for
\* a zero or empty value.
ConvertLiteral(value, schema) ==
    LET type == IF "type" \in DOMAIN schema THEN schema["type"] ELSE NONE IN
    CASE type = "string" -> JString(value.lexical)
      [] type = "integer" -> JInt(ParseInt(value.lexical, 0))
      [] type = "number" -> JNumber(ParseInt(value.lexical, 0))
      [] type = "boolean" -> JBool(value.lexical # <<>> /\ ParseInt(value.lexical, 0) # 0)
      [] OTHER -> JString(value.lexical)

\* _get_type_name: type_mapping holds every definition name and base_uri
\* + name, mapped to the name; any other uri gives its local name.
GetTypeName(defs, uri) ==
    IF uri \in DOMAIN defs THEN uri
    ELSE IF \E n \in DOMAIN defs : uri = NS \o n THEN CHOOSE n \in DOMAIN defs : uri = NS \o n
    ELSE IF Contains(uri, "#") THEN AfterLast(uri, "#")
    ELSE IF Contains(uri, "/") THEN AfterLast(uri, "/")
    ELSE uri

\* _get_full_class_definition of a definition whose allOf, if any, names
\* no definition with properties of its own: the properties of the allOf
\* items, then the direct ones.
FullProperties(defs, type_name) ==
    IF "properties" \in DOMAIN defs[type_name] THEN defs[type_name]["properties"] ELSE EmptyDict

\* _convert_individual, lines 129-144: the types of the individual that
\* name a definition (owl:NamedIndividual is skipped)
SchemaTypes(defs, g, uri) ==
    {GetTypeName(defs, t.o.uri) :
        t \in {u \in g : u.s = uri /\ u.p = RdfUri("type") /\ ~u.o.is_literal
                         /\ GetTypeName(defs, u.o.uri) \in DOMAIN defs}}

\* _convert_individual, lines 152-176: the values the individual gets for
\* the predicates its definition has a property for.  An array takes every
\* value, in the order the graph yields them; a single-valued property
\* takes the first value the graph yields.  The result is the set of
\* objects the call can return.
ConvertedProperties(defs, g, uri, type_name) ==
    LET props == FullProperties(defs, type_name)
        skipped == {RdfUri("type"), RdfsUri("label"), RdfsUri("comment")}
        preds == {t.p : t \in {u \in g : u.s = uri /\ u.p \notin skipped
                                         /\ GetTypeName(defs, u.p) \in DOMAIN props}}
        names == {GetTypeName(defs, p) : p \in preds}
        PredOf(n) == CHOOSE p \in preds : GetTypeName(defs, p) = n
        Values(n) == {t.o : t \in {u \in g : u.s = uri /\ u.p = PredOf(n)}}
        Choices(n) ==
            IF IsArrayTyped(props[n])
            THEN {JArray([i \in DOMAIN order |->
                            ConvertLiteral(order[i],
                                           IF "items" \in DOMAIN props[n] THEN props[n]["items"]
                                           ELSE EmptyDict)]) :
                     order \in Orders(Values(n))}
            ELSE {ConvertLiteral(v, props[n]) : v \in Values(n)}
    IN {f \in [names -> UNION {Choices(n) : n \in names}] : \A n \in names : f[n] \in Choices(n)}

\* _convert_individual: {"uri": str(individual_uri)} and the converted
\* properties; the uri alone when no type names a definition.
ConvertedIndividuals(defs, g, uri) ==
    IF SchemaTypes(defs, g, uri) = {} THEN {[uri |-> uri, properties |-> EmptyDict]}
    ELSE UNION {{[uri |-> uri, properties |-> ps] : ps \in ConvertedProperties(defs, g, uri, n)} :
                   n \in SchemaTypes(defs, g, uri)}

\* ABoxToJSONConverter(json_schema, base_uri): class_definitions =
\* json_schema.get('definitions', {})
BuildConverter ==
    /\ conv_pc = "idle"
    /\ returned # <<>>
    /\ class_definitions' = IF "definitions" \in DOMAIN returned[1].doc
                            THEN returned[1].doc["definitions"] ELSE EmptyDict
    /\ conv_pc' = "built"
    /\ UNCHANGED <<abox_graph, reference_style, converted_cache, stack, todo, instances,
                   genVars, engVars, auxVars>>

\* convert(abox_graph) on a graph with one individual: the object is
\* appended to the instances of its first type that has a definition.
ConvertLiterals ==
    /\ conv_pc = "built"
    /\ \E uri \in {t.s : t \in {u \in abox_graph : u.p = RdfUri("type")}} :
          \E json_obj \in ConvertedIndividuals(class_definitions, abox_graph, uri) :
              instances' = IF SchemaTypes(class_definitions, abox_graph, uri) = {} THEN EmptyDict
                           ELSE LET n == CHOOSE n \in SchemaTypes(class_definitions, abox_graph, uri) : TRUE
                                IN (n :> <<json_obj>>)
    /\ conv_pc' = "done"
    /\ UNCHANGED <<abox_graph, class_definitions, reference_style, converted_cache, stack, todo,
                   genVars, engVars, auxVars>>

Person == Uri(<<"Person">>)
age == Uri(<<"age">>)
alice == Uri(<<"alice">>)

\* A class Person and a datatype property age.
PersonModel(domain, range, functional) ==
    OntologyModel(<<OntologyClass(Person, <<>>, <<>>, <<>>, EmptyDict)>>, <<>>,
                  <<DatatypeProperty(age, domain, range, functional)>>, EmptyDict)

PersonModels ==
    {PersonModel(d, r, f) :
        d \in {<<Person>>, <<>>}, f \in BOOLEAN,
        r \in {<<Xsd("integer")>>, <<Xsd("string")>>, <<Xsd("decimal")>>,
               <<Xsd("positiveInteger")>>, <<>>}}

\* alice, a Person with a label and any of the ages 30 and 7.
PersonGraphs ==
    {{Triple(alice, RdfUri("type"), UriNode(Person)),
      Triple(alice, RdfsUri("label"), LiteralNode(<<"A", "l", "i", "c", "e">>))}
     \cup {Triple(alice, age, LiteralNode(l)) : l \in ages} :
        ages \in SUBSET {<<"3", "0">>, <<"7">>}}

\* One transform() of a Person model, then the conversion of an A-box
EndToEndInit ==
    /\ ontology = [classes |-> <<>>, object_properties |-> <<>>, datatype_properties |-> <<>>]
    /\ individuals = <<>>
    /\ individual_classes = <<>>
    /\ graph = {}
    /\ gen_pc = "idle"
    /\ work = <<>>
    /\ abox_graph \in PersonGraphs
    /\ class_definitions = EmptyDict
    /\ reference_style = "reference"
    /\ converted_cache = EmptyDict
    /\ stack = <<>>
    /\ todo = <<>>
    /\ instances = EmptyDict
    /\ conv_pc = "idle"
    /\ \E cfg \in Configs :
          /\ config = [e \in Engines |-> cfg]
          /\ rules = [e \in Engines |-> InitializeRules(cfg)]
    /\ schema_builder = [e \in Engines |-> SchemaBuilder]
    /\ \E m \in PersonModels : calls = [t \in Threads |-> IdleCall(1, IF t = 1 THEN <<m>> ELSE <<>>)]
    /\ returned = <<>>
    /\ toggled = [id \in ToggledIds |-> ""]
    /\ validation = [pc |-> "idle"]
    /\ reasoner = [pc |-> "idle"]
    /\ parser = [pc |-> "idle"]

EndToEndNext ==
    \/ \E t \in Threads : TransformBegin(t)
    \/ \E t \in Threads : ApplyRule(t)
    \/ \E t \in Threads : TransformReturn(t)
    \/ BuildConverter
    \/ ConvertLiterals

SpecEndToEnd == EndToEndInit /\ [][EndToEndNext]_vars

\* C15: a Person with the assertion age = 30, age a datatype property of
\* Person with range xsd:integer, is converted under the schema of the
\* default configuration to an instance of Person whose age is the JSON
\* integer 30.
C15_AgeIsTheInteger30 ==
    (/\ conv_pc = "done"
     /\ returned[1].config = DefaultConfig
     /\ returned[1].ontology.datatype_properties[1].domain = <<Person>>
     /\ returned[1].ontology.datatype_properties[1].range = <<Xsd("integer")>>
     /\ {t.o : t \in {u \in abox_graph : u.p = age}} = {LiteralNode(<<"3", "0">>)})
    => /\ <<"Person">> \in DOMAIN instances
       /\ \E k \in DOMAIN instances[<<"Person">>] :
             LET obj == instances[<<"Person">>][k] IN
             /\ obj.uri = alice
             /\ <<"age">> \in DOMAIN obj.properties
             /\ obj.properties[<<"age">>] = JInt(30)

\* C15, for a functional age: the claim as stated holds.
C15_FunctionalAgeIsTheInteger30 ==
    (conv_pc = "done" /\ returned[1].ontology.datatype_properties[1].functional)
        => C15_AgeIsTheInteger30

\* ------------------------------------------------ ABoxValidator.validate
\* reasoner.py.  Graphs are sets of triples <<s, p, o>> of plain strings.

DISJOINT_WITH == "owl:disjointWith"
ALL_DISJOINT == "owl:AllDisjointClasses"
MEMBERS == "owl:members"
RDF_FIRST == "rdf:first"
RDF_REST == "rdf:rest"
RDF_NIL == "rdf:nil"
NOTHING == "owl:Nothing"
SUBCLASS_OF == "rdfs:subClassOf"
FUNCTIONAL_PROPERTY == "owl:FunctionalProperty"

\* graph.subjects(p, o)
GraphSubjects(g, p, o) == {t[1] : t \in {u \in g : u[2] = p /\ u[3] = o}}

\* The part of owlrl's deductive closure that the checks read: every type
\* an individual has through rdfs:subClassOf, and owl:Thing for every typed
\* subject.
RECURSIVE InferTypes(_)
InferTypes(g) ==
    LET step == {<<q[1][1], RDF_TYPE, q[2][3]>> :
                    q \in {r \in g \X g : /\ r[1][2] = RDF_TYPE /\ r[2][2] = SUBCLASS_OF
                                           /\ r[2][1] = r[1][3]}} \ g
    IN IF step = {} THEN g ELSE InferTypes(g \cup step)

DeductiveClosure(g) ==
    InferTypes(g) \cup {<<t[1], RDF_TYPE, THING>> :
                           t \in {u \in g : u[2] = RDF_TYPE /\ u[3] = NAMED_INDIVIDUAL}}

\* _parse_rdf_list: the members of a well-formed list
RECURSIVE ParseRdfList(_,_)
ParseRdfList(g, current) ==
    IF current = RDF_NIL \/ GraphObjects(g, current, RDF_REST) = {} THEN <<>>
    ELSE LET first == GraphObjects(g, current, RDF_FIRST)
             rest == CHOOSE r \in GraphObjects(g, current, RDF_REST) : TRUE
         IN (IF first = {} THEN <<>> ELSE <<CHOOSE f \in first : TRUE>>) \o ParseRdfList(g, rest)

\* _are_disjoint
AreDisjoint(g, class1, class2) ==
    \/ <<class1, DISJOINT_WITH, class2>> \in g
    \/ <<class2, DISJOINT_WITH, class1>> \in g
    \/ \E disjoint_node \in GraphSubjects(g, RDF_TYPE, ALL_DISJOINT) :
          \E member_list \in GraphObjects(g, disjoint_node, MEMBERS) :
              LET class_list == Range(ParseRdfList(g, member_list))
              IN class1 \in class_list /\ class2 \in class_list

Issue(type, individual, classes, property) ==
    [type |-> type, individual |-> individual, classes |-> classes, property |-> property]

\* _check_nothing_instances: one issue for every subject typed owl:Nothing
NothingViolations(g) ==
    {Issue("nothing_instance", subj, <<>>, "") : subj \in GraphSubjects(g, RDF_TYPE, NOTHING)}

\* _check_disjoint_violations: the individuals are the subjects typed
\* owl:NamedIndividual; every pair of their types, other than
\* owl:NamedIndividual and owl:Thing, is tested once.
DisjointPairs(g) ==
    {<<ind, pair>> \in
        GraphSubjects(g, RDF_TYPE, NAMED_INDIVIDUAL)
            \X SUBSET (UNION {{t[3]} : t \in {u \in g : u[2] = RDF_TYPE}}) :
        /\ Cardinality(pair) = 2
        /\ pair \subseteq (GraphObjects(g, ind, RDF_TYPE) \ {NAMED_INDIVIDUAL, THING})
        /\ \E class1, class2 \in pair : class1 # class2 /\ AreDisjoint(g, class1, class2)}

\* The issues of the violating pairs, each naming its two classes in the
\* order the graph yields the types.
DisjointViolations(g) ==
    {[p \in DisjointPairs(g) |-> Issue("disjoint_violation", p[1], SeqOfSet(p[2]), "")]}
    \cup {[p \in DisjointPairs(g) |->
              Issue("disjoint_violation", p[1],
                    <<SeqOfSet(p[2])[2], SeqOfSet(p[2])[1]>>, "")]}

\* _check_functional_property_violations: a functional property with more
\* than one value for a subject
FunctionalViolations(g) ==
    {Issue("functional_violation", t[1], <<>>, t[2]) :
        t \in {u \in g : /\ u[2] \in GraphSubjects(g, RDF_TYPE, FUNCTIONAL_PROPERTY)
                         /\ Cardinality(GraphObjects(g, u[1], u[2])) > 1}}

\* _check_inconsistencies: the issues of the three checks that do
\* something, in the order of the checks
CheckResults(g) ==
    {SeqOfSet(NothingViolations(g)) \o SeqOfSet(Range(d)) \o SeqOfSet(FunctionalViolations(g)) :
        d \in DisjointViolations(g)}

\* An exception that leaves validate() through its caller.
Propagate(r) == [r EXCEPT !.pc = "raised"]

\* validate, lines 67-72: the except branch
CatchReasonerError(r) ==
    [r EXCEPT !.pc = "checked", !.is_consistent = FALSE,
              !.inconsistencies = Append(@, Issue("reasoning_error", "", <<>>, ""))]

\* A validator whose fields a call leaves as the call before left them.
KeepState(r) == r

\* validate, lines 43-45: self.inconsistencies = [], self.is_consistent = True
ResetState(r) == [r EXCEPT !.inconsistencies = <<>>, !.is_consistent = TRUE]

\* validate, lines 43-51: reset the state, combine T-box and A-box
ReasonerBegin ==
    /\ reasoner.pc = "new"
    /\ reasoner' = [ResetState(reasoner) EXCEPT
                        !.pc = "combined",
                        !.combined_graph = reasoner.tbox_graph \cup reasoner.abox_graph]
    /\ UNCHANGED <<genVars, convVars, engVars, validation, parser, toggled>>

\* validate, lines 54-61: DeductiveClosure(...).expand(combined_graph)
\* returns, or raises
Expand ==
    /\ reasoner.pc = "combined"
    /\ \/ reasoner' = [reasoner EXCEPT !.pc = "closed",
                                       !.combined_graph = DeductiveClosure(@)]
       \/ reasoner' = CatchReasonerError([reasoner EXCEPT !.raised = "closure"])
    /\ UNCHANGED <<genVars, convVars, engVars, validation, parser, toggled>>

\* validate, line 64: _check_inconsistencies() runs to its end, or an
\* exception stops it after some of its issues were appended. Every check
\* appends to self.inconsistencies and sets is_consistent to False with
\* each issue; none of them sets it to True.
CheckInconsistencies ==
    /\ reasoner.pc = "closed"
    /\ \E issues \in CheckResults(reasoner.combined_graph) :
          \/ reasoner' = [reasoner EXCEPT !.pc = "checked",
                                          !.is_consistent = @ /\ (issues = <<>>),
                                          !.inconsistencies = @ \o issues]
          \/ \E n \in 0..Len(issues) :
                reasoner' = CatchReasonerError(
                                [reasoner EXCEPT !.raised = "checks",
                                                 !.is_consistent = @ /\ (n = 0),
                                                 !.inconsistencies = @ \o SubSeq(issues, 1, n)])
    /\ UNCHANGED <<genVars, convVars, engVars, validation, parser, toggled>>

\* validate, line 74: return self.is_consistent, self.inconsistencies
ReasonerReturn ==
    /\ reasoner.pc = "checked"
    /\ reasoner' = [reasoner EXCEPT !.pc = "done"]
    /\ UNCHANGED <<genVars, convVars, engVars, validation, parser, toggled>>

\* The T-boxes: classes A and B, declared disjoint in any of the ways, a
\* subclass A1 of A, a functional property p.
DisjointDeclarations ==
    LET list(node, members) ==
            {<<node, RDF_TYPE, ALL_DISJOINT>>, <<node, MEMBERS, "l1">>}
            \cup {<<"l1", RDF_FIRST, members[1]>>, <<"l1", RDF_REST, "l2">>,
                  <<"l2", RDF_FIRST, members[2]>>,
                  <<"l2", RDF_REST, IF Len(members) > 2 THEN "l3" ELSE RDF_NIL>>}
            \cup (IF Len(members) > 2
                  THEN {<<"l3", RDF_FIRST, members[3]>>, <<"l3", RDF_REST, RDF_NIL>>} ELSE {})
    IN {{}, {<<"A", DISJOINT_WITH, "B">>}, {<<"B", DISJOINT_WITH, "A">>},
        {<<"A", DISJOINT_WITH, "B">>, <<"B", DISJOINT_WITH, "A">>},
        list("adc", <<"A", "B">>), list("adc", <<"C", "B", "A">>)}

TBoxGraphs ==
    {d \cup sub \cup fp :
        d \in DisjointDeclarations,
        sub \in {{}, {<<"A1", SUBCLASS_OF, "A">>}},
        fp \in {{}, {<<"p", RDF_TYPE, FUNCTIONAL_PROPERTY>>}}}

\* The A-boxes: x, declared a named individual or not, with any types and
\* values of p; and, or not, y, a named individual of types A and B.
ABoxGraphs ==
    {{<<"x", RDF_TYPE, c>> : c \in types}
     \cup (IF named THEN {<<"x", RDF_TYPE, NAMED_INDIVIDUAL>>} ELSE {})
     \cup {<<"x", "p", v>> : v \in values}
     \cup (IF with_y THEN {<<"y", RDF_TYPE, NAMED_INDIVIDUAL>>, <<"y", RDF_TYPE, "A">>,
                           <<"y", RDF_TYPE, "B">>} ELSE {}) :
        types \in (SUBSET {"A", "B", "A1", NOTHING}) \ {{}},
        named \in BOOLEAN, values \in SUBSET DataValues, with_y \in BOOLEAN}

\* validate(abox_graph) on a validator built from a T-box
ReasonerInit ==
    /\ ontology = [classes |-> <<>>, object_properties |-> <<>>, datatype_properties |-> <<>>]
    /\ individuals = <<>>
    /\ individual_classes = <<>>
    /\ graph = {}
    /\ gen_pc = "idle"
    /\ work = <<>>
    /\ abox_graph = {}
    /\ class_definitions = EmptyDict
    /\ reference_style = "reference"
    /\ converted_cache = EmptyDict
    /\ stack = <<>>
    /\ todo = <<>>
    /\ instances = <<>>
    /\ conv_pc = "idle"
    /\ config = [e \in Engines |-> DefaultConfig]
    /\ rules = [e \in Engines |-> InitializeRules(DefaultConfig)]
    /\ schema_builder = [e \in Engines |-> SchemaBuilder]
    /\ calls = [t \in Threads |-> IdleCall(t, <<>>)]
    /\ returned = <<>>
    /\ toggled = [id \in ToggledIds |-> ""]
    /\ validation = [pc |-> "idle"]
    /\ reasoner \in {[pc |-> "new", tbox_graph |-> tb, abox_graph |-> ab, combined_graph |-> {},
                      inconsistencies |-> <<>>, is_consistent |-> TRUE, raised |-> ""] :
                        tb \in TBoxGraphs, ab \in ABoxGraphs}
    /\ parser = [pc |-> "idle"]

ReasonerNext ==
    \/ ReasonerBegin
    \/ Expand
    \/ CheckInconsistencies
    \/ ReasonerReturn

SpecReasoner == ReasonerInit /\ [][ReasonerNext]_vars

\* Two classes the T-box declares disjoint, read off its triples
DeclaredDisjoint(tbox, class1, class2) ==
    \/ <<class1, DISJOINT_WITH, class2>> \in tbox
    \/ <<class2, DISJOINT_WITH, class1>> \in tbox
    \/ \E node \in {t[1] : t \in {u \in tbox : u[2] = MEMBERS}} :
          {class1, class2} \subseteq
              {t[3] : t \in {u \in tbox : u[2] = RDF_FIRST /\ u[1] \in {"l1", "l2", "l3"}}}

\* The subjects with rdf:type assertions, each with a pair of types it
\* holds, asserted or inherited from a subclass, that is declared disjoint
HoldsDisjointTypes(r) ==
    {<<ind, pair>> \in {t[1] : t \in {u \in r.abox_graph : u[2] = RDF_TYPE}}
                          \X SUBSET {"A", "B", "A1", "C"} :
        /\ Cardinality(pair) = 2
        /\ \A c \in pair : <<ind, RDF_TYPE, c>> \in InferTypes(r.tbox_graph \cup r.abox_graph)
        /\ \E class1, class2 \in pair : class1 # class2 /\ DeclaredDisjoint(r.tbox_graph, class1, class2)}

DisjointIssues(r) ==
    {i \in DOMAIN r.inconsistencies : r.inconsistencies[i].type = "disjoint_violation"}

\* C16: when validate() returns without an exception in the reasoner,
\* every subject with rdf:type assertions that holds two types declared
\* disjoint makes is_consistent false and has a disjoint_violation issue
\* naming both classes; one such individual and pair gives exactly one
\* disjoint_violation issue.
C16_DisjointTypesReported ==
    (reasoner.pc = "done" /\ reasoner.raised = "")
    => /\ \A h \in HoldsDisjointTypes(reasoner) :
             /\ ~reasoner.is_consistent
             /\ \E i \in DisjointIssues(reasoner) :
                   /\ reasoner.inconsistencies[i].individual = h[1]
                   /\ Range(reasoner.inconsistencies[i].classes) = h[2]
       /\ Cardinality(HoldsDisjointTypes(reasoner)) = 1
             => Cardinality(DisjointIssues(reasoner)) = 1

\* C16, for individuals declared owl:NamedIndividual: every disjoint pair
\* of asserted types is reported.
C16_NamedIndividualsReported ==
    (reasoner.pc = "done" /\ reasoner.raised = "")
    => \A h \in HoldsDisjointTypes(reasoner) :
          <<h[1], RDF_TYPE, NAMED_INDIVIDUAL>> \in reasoner.abox_graph
          => /\ ~reasoner.is_consistent
             /\ \E i \in DisjointIssues(reasoner) :
                   /\ reasoner.inconsistencies[i].individual = h[1]
                   /\ Range(reasoner.inconsistencies[i].classes) = h[2]

\* C17: an exception raised by the closure, or by the checks after it,
\* never leaves validate(): validate() returns is_consistent false and the
\* last issue is a reasoning_error.
C17_ReasonerErrorIsCaught ==
    /\ reasoner.pc # "raised"
    /\ (reasoner.pc \in {"checked", "done"} /\ reasoner.raised # "")
       => /\ ~reasoner.is_consistent
          /\ reasoner.inconsistencies # <<>>
          /\ reasoner.inconsistencies[Len(reasoner.inconsistencies)].type = "reasoning_error"
          /\ Cardinality({i \in DOMAIN reasoner.inconsistencies :
                             reasoner.inconsistencies[i].type = "reasoning_error"}) = 1

\* C17: validate() returned after the closure raised on a graph that the
\* checks would have found consistent.
C17_ClosureRaisedAndReturned ==
    /\ reasoner.pc = "done"
    /\ reasoner.raised = "closure"
    /\ CheckResults(DeductiveClosure(reasoner.combined_graph)) = {<<>>}
    /\ reasoner.inconsistencies = <<Issue("reasoning_error", "", <<>>, "")>>

\* ------------------------------- OntologyParser._parse_object_properties
\* parser.py, lines 189-267.  Only the uri and the inverse of a property are
\* kept; uris are plain strings and NONE is the inverse_of not set.

INVERSE_OF == "owl:inverseOf"
ParsedProperties == {"P", "Q", "R"}

\* self.ontology.object_properties has a property of that uri
IsParsed(props, uri) == \E i \in DOMAIN props : props[i].uri = uri

\* prop_map.get(uri), for a uri that is parsed: the last property of that
\* uri
IndexOf(props, uri) ==
    CHOOSE i \in DOMAIN props : props[i].uri = uri /\ \A j \in DOMAIN props : props[j].uri = uri => j <= i

\* _ensure_bidirectional_inverses: the loop from the i-th property on
RECURSIVE EnsureBidirectionalInverses(_,_)
EnsureBidirectionalInverses(props, i) ==
    IF i > Len(props) THEN props
    ELSE LET prop == props[i] IN
         IF prop.inverse_of # NONE /\ IsParsed(props, prop.inverse_of)
               /\ props[IndexOf(props, prop.inverse_of)].inverse_of = NONE
         THEN EnsureBidirectionalInverses(
                  [props EXCEPT ![IndexOf(props, prop.inverse_of)].inverse_of = prop.uri], i + 1)
         ELSE EnsureBidirectionalInverses(props, i + 1)

\* _parse_object_properties, lines 191-252: the next subject typed
\* owl:ObjectProperty, in the order the graph yields them; its inverse_of
\* is the first owl:inverseOf object the graph yields.
ParseObjectProperty ==
    /\ parser.pc = "properties"
    /\ parser.pending # {}
    /\ \E prop_uri \in parser.pending :
          \E inverse \in IF GraphObjects(parser.graph, prop_uri, INVERSE_OF) = {} THEN {NONE}
                         ELSE GraphObjects(parser.graph, prop_uri, INVERSE_OF) :
              parser' = [parser EXCEPT
                            !.pending = @ \ {prop_uri},
                            !.object_properties = Append(@, [uri |-> prop_uri, inverse_of |-> inverse])]
    /\ UNCHANGED <<genVars, convVars, engVars, validation, reasoner, toggled>>

\* _parse_object_properties, lines 254-255: after the loop,
\* _ensure_bidirectional_inverses()
EnsureInverses ==
    /\ parser.pc = "properties"
    /\ parser.pending = {}
    /\ parser' = [parser EXCEPT !.pc = "done",
                                !.object_properties = EnsureBidirectionalInverses(@, 1)]
    /\ UNCHANGED <<genVars, convVars, engVars, validation, reasoner, toggled>>

\* The graphs parsed: any of P, Q and R declared owl:ObjectProperty, each
\* with at most two owl:inverseOf statements to P, Q, R.
InverseGraphs ==
    {{<<d, RDF_TYPE, "owl:ObjectProperty">> : d \in declared}
     \cup UNION {{<<d, INVERSE_OF, i>> : i \in inv[d]} : d \in ParsedProperties} :
        declared \in (SUBSET ParsedProperties) \ {{}},
        inv \in [ParsedProperties -> {S \in SUBSET ParsedProperties : Cardinality(S) <= 2}]}

\* _parse_object_properties on a parser that has loaded a graph
ParserInit ==
    /\ ontology = [classes |-> <<>>, object_properties |-> <<>>, datatype_properties |-> <<>>]
    /\ individuals = <<>>
    /\ individual_classes = <<>>
    /\ graph = {}
    /\ gen_pc = "idle"
    /\ work = <<>>
    /\ abox_graph = {}
    /\ class_definitions = EmptyDict
    /\ reference_style = "reference"
    /\ converted_cache = EmptyDict
    /\ stack = <<>>
    /\ todo = <<>>
    /\ instances = <<>>
    /\ conv_pc = "idle"
    /\ config = [e \in Engines |-> DefaultConfig]
    /\ rules = [e \in Engines |-> InitializeRules(DefaultConfig)]
    /\ schema_builder = [e \in Engines |-> SchemaBuilder]
    /\ calls = [t \in Threads |-> IdleCall(t, <<>>)]
    /\ returned = <<>>
    /\ toggled = [id \in ToggledIds |-> ""]
    /\ validation = [pc |-> "idle"]
    /\ reasoner = [pc |-> "idle"]
    /\ parser \in {[pc |-> "properties", graph |-> g,
                    pending |-> GraphSubjects(g, RDF_TYPE, "owl:ObjectProperty"),
                    object_properties |-> <<>>] : g \in InverseGraphs}

ParserNext ==
    \/ ParseObjectProperty
    \/ EnsureInverses

SpecParser == ParserInit /\ [][ParserNext]_vars

\* C18: after parsing, whenever A.inverse_of is B, B is a parsed property
\* and B.inverse_of is A.
C18_InverseOfIsSymmetric ==
    parser.pc = "done"
    => \A a \in Range(parser.object_properties) :
          a.inverse_of # NONE
          => \E b \in Range(parser.object_properties) :
                b.uri = a.inverse_of /\ b.inverse_of = a.uri

\* C18, what the post-processing does establish: a parsed property that
\* declares no inverse and is named as the inverse of a parsed property
\* points back to one of the properties that name it.
C18_EmptyInverseIsFilled ==
    parser.pc = "done"
    => \A a, b \in Range(parser.object_properties) :
          (a.inverse_of = b.uri /\ GraphObjects(parser.graph, b.uri, INVERSE_OF) = {})
          => \E c \in Range(parser.object_properties) :
                b.inverse_of = c.uri /\ c.inverse_of = b.uri

\* ------------------------------------------ enable_rule / disable_rule
\* engine.py, lines 254-284, on engine 1.

\* enable_rule(rule_id): get_rule finds a rule of that id or nothing
\* happens
EnableRule(rule_id) ==
    /\ IF rule_id \in DOMAIN rules[1]
       THEN /\ rules' = [rules EXCEPT ![1][rule_id] = TRUE]
            /\ config' = [config EXCEPT ![1] = SetRuleEnabled(@, rule_id, TRUE)]
       ELSE UNCHANGED <<config, rules>>
    /\ toggled' = [toggled EXCEPT ![rule_id] = "enable"]
    /\ UNCHANGED <<schema_builder, calls, returned, genVars, convVars, validation, reasoner, parser>>

\* disable_rule(rule_id)
DisableRule(rule_id) ==
    /\ IF rule_id \in DOMAIN rules[1]
       THEN /\ rules' = [rules EXCEPT ![1][rule_id] = FALSE]
            /\ config' = [config EXCEPT ![1] = SetRuleEnabled(@, rule_id, FALSE)]
       ELSE UNCHANGED <<config, rules>>
    /\ toggled' = [toggled EXCEPT ![rule_id] = "disable"]
    /\ UNCHANGED <<schema_builder, calls, returned, genVars, convVars, validation, reasoner, parser>>

\* A new engine for any of the configurations
RulesInit ==
    /\ ontology = [classes |-> <<>>, object_properties |-> <<>>, datatype_properties |-> <<>>]
    /\ individuals = <<>>
    /\ individual_classes = <<>>
    /\ graph = {}
    /\ gen_pc = "idle"
    /\ work = <<>>
    /\ abox_graph = {}
    /\ class_definitions = EmptyDict
    /\ reference_style = "reference"
    /\ converted_cache = EmptyDict
    /\ stack = <<>>
    /\ todo = <<>>
    /\ instances = <<>>
    /\ conv_pc = "idle"
    /\ \E cfg \in Configs :
          /\ config = [e \in Engines |-> cfg]
          /\ rules = [e \in Engines |-> InitializeRules(cfg)]
    /\ schema_builder = [e \in Engines |-> SchemaBuilder]
    /\ calls = [t \in Threads |-> IdleCall(t, <<>>)]
    /\ returned = <<>>
    /\ toggled = [id \in ToggledIds |-> ""]
    /\ validation = [pc |-> "idle"]
    /\ reasoner = [pc |-> "idle"]
    /\ parser = [pc |-> "idle"]

RulesNext ==
    \/ \E rule_id \in ToggledIds : EnableRule(rule_id)
    \/ \E rule_id \in ToggledIds : DisableRule(rule_id)

SpecRules == RulesInit /\ [][RulesNext]_vars

\* C19: after any sequence of enable_rule and disable_rule calls every rule
\* of the engine is in exactly one of get_enabled_rules() and
\* get_disabled_rules(), in the list the last call with its id says, and
\* rule.is_enabled() is config.is_rule_enabled(id); a call changes the flag
\* of no other rule, and a call with an id that is not registered changes
\* neither the rules nor the configuration.
C19_EnabledAndDisabledPartition ==
    /\ [](\A id \in Range(RuleTable) :
            LET enabled == id \in Range(GetEnabledRules(rules[1]))
                disabled == id \in Range(GetDisabledRules(rules[1]))
            IN /\ enabled # disabled
               /\ rules[1][id] = IsRuleEnabled(config[1], id)
               /\ (id \in ToggledIds /\ toggled[id] = "enable") => enabled
               /\ (id \in ToggledIds /\ toggled[id] = "disable") => disabled)
    /\ [][\A id \in ToggledIds :
            toggled'[id] # toggled[id]
            => /\ \A other \in Range(RuleTable) \ {id} :
                     /\ rules'[1][other] = rules[1][other]
                     /\ IsRuleEnabled(config'[1], other) = IsRuleEnabled(config[1], other)
               /\ id \notin Range(RuleTable) => (rules' = rules /\ config' = config)]_vars

\* C19: a rule the configuration enabled was disabled, another was enabled
\* last, and both unregistered ids were used.
C19_RulesToggled ==
    /\ toggled["class_to_object"] = "disable"
    /\ "class_to_object" \in Range(GetDisabledRules(rules[1]))
    /\ toggled["object_property"] = "enable"
    /\ "object_property" \in Range(GetEnabledRules(rules[1]))
    /\ toggled["disjoint_classes"] = "enable"
    /\ toggled["no_such_rule"] # ""

\* ------------------------------------------------- SchemaBuilder.build
\* The builder of engine 1, driven through its own methods.

\* Most build() calls on one builder.
MaxBuilds == 2

DRAFT_07 == "http://json-schema.org/draft-07/schema#"

\* add_to_root(key, value)
AddToRootCall ==
    /\ \E kv \in {<<"title", "Rail">>, <<"type", "array">>,
                  <<"$schema", "http://json-schema.org/draft-04/schema#">>} :
          schema_builder' = [schema_builder EXCEPT ![1] = AddToRoot(@, kv[1], kv[2])]
    /\ UNCHANGED <<config, rules, calls, returned, genVars, convVars, auxVars>>

\* add_property(name, schema, required)
AddPropertyCall ==
    /\ \E name \in {"name", "id"}, required \in BOOLEAN :
          schema_builder' = [schema_builder EXCEPT ![1] =
                                AddProperty(@, name, [type |-> "string"], required)]
    /\ UNCHANGED <<config, rules, calls, returned, genVars, convVars, auxVars>>

\* add_definition(name, schema)
AddDefinitionCall ==
    /\ \E name \in {<<"Person">>, <<"rail", ":", "Rolling", " ", "Stock">>} :
          schema_builder' = [schema_builder EXCEPT ![1] =
                                AddDefinition(@, name, ("type" :> "object") @@ ("properties" :> EmptyDict))]
    /\ UNCHANGED <<config, rules, calls, returned, genVars, convVars, auxVars>>

\* build(): self.schema is completed in place and a deep copy returned
Build ==
    /\ Len(returned) < MaxBuilds
    /\ LET doc == BuildSchema(schema_builder[1])
       IN /\ schema_builder' = [schema_builder EXCEPT ![1].schema = doc]
          /\ returned' = Append(returned, [thread |-> 1, engine |-> 1, ontology |-> NoModel,
                                           config |-> config[1], doc |-> doc])
    /\ UNCHANGED <<config, rules, calls, genVars, convVars, auxVars>>

\* A new SchemaBuilder
BuilderInit ==
    /\ ontology = [classes |-> <<>>, object_properties |-> <<>>, datatype_properties |-> <<>>]
    /\ individuals = <<>>
    /\ individual_classes = <<>>
    /\ graph = {}
    /\ gen_pc = "idle"
    /\ work = <<>>
    /\ abox_graph = {}
    /\ class_definitions = EmptyDict
    /\ reference_style = "reference"
    /\ converted_cache = EmptyDict
    /\ stack = <<>>
    /\ todo = <<>>
    /\ instances = <<>>
    /\ conv_pc = "idle"
    /\ config = [e \in Engines |-> DefaultConfig]
    /\ rules = [e \in Engines |-> InitializeRules(DefaultConfig)]
    /\ schema_builder = [e \in Engines |-> SchemaBuilder]
    /\ calls = [t \in Threads |-> IdleCall(t, <<>>)]
    /\ returned = <<>>
    /\ toggled = [id \in ToggledIds |-> ""]
    /\ validation = [pc |-> "idle"]
    /\ reasoner = [pc |-> "idle"]
    /\ parser = [pc |-> "idle"]

BuilderNext ==
    \/ AddToRootCall
    \/ AddPropertyCall
    \/ AddDefinitionCall
    \/ Build

SpecBuilder == BuilderInit /\ [][BuilderNext]_vars

\* The document a build() step returns
Built == returned'[Len(returned')].doc

\* C20: every build() returns a document with the draft-07 $schema and a
\* root type: with root properties the root has type object, the
\* properties, and required exactly when it is not empty; with definitions
\* only it is the closed empty object; for an empty builder the type is
\* object.
C20_BuildAlwaysTypesTheRoot ==
    [][Len(returned') = Len(returned) + 1
       => LET b == schema_builder[1] IN
          /\ Built["$schema"] = DRAFT_07
          /\ "type" \in DOMAIN Built
          /\ b.properties # EmptyDict
             => /\ Built["type"] = "object"
                /\ Built["properties"] = b.properties
                /\ ("required" \in DOMAIN Built) = (b.required # <<>>)
          /\ (b.properties = EmptyDict /\ b.definitions # EmptyDict)
             => /\ Built["type"] = "object"
                /\ "additionalProperties" \in DOMAIN Built
                /\ Built["additionalProperties"] = FALSE
          /\ (b.properties = EmptyDict /\ b.definitions = EmptyDict)
             => Built["type"] = "object"]_vars

\* C20, what build() does establish: the same, for a builder whose root
\* has no type yet and whose $schema was not overwritten.
C20_FirstBuildTypesTheRoot ==
    [][(/\ Len(returned') = Len(returned) + 1
        /\ "type" \notin DOMAIN schema_builder[1].schema
        /\ schema_builder[1].schema["$schema"] = DRAFT_07)
       => LET b == schema_builder[1] IN
          /\ Built["$schema"] = DRAFT_07
          /\ Built["type"] = "object"
          /\ b.properties # EmptyDict
             => /\ Built["properties"] = b.properties
                /\ ("required" \in DOMAIN Built) = (b.required # <<>>)
          /\ (b.properties = EmptyDict /\ b.definitions # EmptyDict)
             => /\ "additionalProperties" \in DOMAIN Built
                /\ Built["additionalProperties"] = FALSE]_vars

\* C20: a builder with nothing but definitions and the draft-07 $schema,
\* built a second time, returns a root without additionalProperties.
C20_SecondBuildIsOpen ==
    /\ Len(returned) = 2
    /\ schema_builder[1].properties = EmptyDict
    /\ schema_builder[1].definitions # EmptyDict
    /\ returned[1].doc = ("$schema" :> DRAFT_07) @@ ("type" :> "object")
    /\ returned[2].doc["type"] = "object"
    /\ "additionalProperties" \notin DOMAIN returned[2].doc

\* ------------------------------- claims on the generator's characteristics

IrreflexiveProps == {p \in Range(ontology.object_properties) : p.irreflexive}
AsymmetricProps == {p \in Range(ontology.object_properties) : p.asymmetric}

\* C21: in the graph generate() returns no edge breaks an irreflexive or
\* asymmetric flag: an irreflexive property P has no edge (a, P, a), and an
\* asymmetric property P has no a, b (equal or not) with both (a, P, b) and
\* (b, P, a); directly generated and mirrored edges alike.
C21_NoIrreflexiveOrAsymmetricViolation ==
    gen_pc = "done" =>
        /\ \A P \in IrreflexiveProps : \A a \in GeneratedIndividuals :
              <<a, P.uri, a>> \notin graph
        /\ \A P \in AsymmetricProps : \A a, b \in GeneratedIndividuals :
              ~(<<a, P.uri, b>> \in graph /\ <<b, P.uri, a>> \in graph)

\* C21, what the filters of _generate_object_properties do establish: no
\* self-edge of an irreflexive property, and no two-way edge of an
\* asymmetric property between two different individuals.
C21_DistinctIndividualsRespectFlags ==
    gen_pc = "done" =>
        /\ \A P \in IrreflexiveProps : \A a \in GeneratedIndividuals :
              <<a, P.uri, a>> \notin graph
        /\ \A P \in AsymmetricProps : \A a, b \in GeneratedIndividuals :
              a # b => ~(<<a, P.uri, b>> \in graph /\ <<b, P.uri, a>> \in graph)

\* C21: a returned graph in which an asymmetric property links an
\* individual to itself.
C21_AsymmetricSelfEdge ==
    /\ gen_pc = "done"
    /\ \E P \in AsymmetricProps : \E a \in GeneratedIndividuals :
          <<a, P.uri, a>> \in graph

\* --------------------------------- the generator on restricted T-boxes
\* generate() on T-boxes whose classes carry cardinality restrictions or
\* form a hierarchy with disjoint subclasses.

\* The largest cardinality a restriction of the T-boxes below carries.
MaxCard == 4

\* The restrictions of one class on one property as the parser builds
\* them (parser.py 391-434): one CardinalityRestriction per owl:minCardinality,
\* owl:maxCardinality or owl:cardinality axiom, each with one field set.
CardinalityLists(p) ==
    {<<CardinalityRestriction(p, b[1], NoCard, NoCard),
       CardinalityRestriction(p, NoCard, b[2], NoCard)>> :
         b \in {c \in (0..MaxCard) \X (0..MaxCard) : c[1] <= c[2]}}
    \cup {<<CardinalityRestriction(p, NoCard, NoCard, ex)>> : ex \in 0..MaxCard}

\* Class A restricted on one property: the datatype property label, the
\* structural object property hasPart or the plain object property knows.
CardinalityOntology(kind, restrictions, functional) ==
    LET A == OntologyClass("A", <<>>, <<>>, restrictions, EmptyDict)
        B == OntologyClass("B", <<>>, <<>>, <<>>, EmptyDict)
    IN IF kind = "label"
       THEN [classes |-> <<A, B>>,
             object_properties |-> <<>>,
             datatype_properties |->
                 <<DatatypeProperty("label", <<"A">>, <<"xsd:string">>, functional)>>]
       ELSE [classes |-> <<A, B>>,
             object_properties |->
                 <<Prop(kind, "A", "B", NONE, IF functional THEN {"functional"} ELSE {})>>,
             datatype_properties |-> <<>>]

CardinalityOntologies ==
    UNION {{CardinalityOntology(kind, rs, f) : rs \in CardinalityLists(kind), f \in BOOLEAN} :
              kind \in {"label", "hasPart", "knows"}}

\* A class A with up to three direct subclasses A1..A3, some pairs of them
\* declared disjoint (by the first of the pair), next to owl:Thing and an
\* enumeration class.
SubclassNames == <<"A1", "A2", "A3">>

HierarchyOntology(n, pairs) ==
    [classes |->
        <<OntologyClass("A", <<>>, <<>>, <<>>, EmptyDict)>>
        \o [i \in 1..n |->
              OntologyClass(SubclassNames[i], <<"A">>,
                            SeqOfSet({SubclassNames[j] : j \in {k \in 1..n : <<i, k>> \in pairs}}),
                            <<>>, EmptyDict)]
        \o <<OntologyClass(THING, <<>>, <<>>, <<>>, EmptyDict),
             OntologyClass("Colour", <<>>, <<>>, <<>>,
                           ("enumeration" :> <<"red", "green">>))>>,
     object_properties |-> <<>>,
     datatype_properties |-> <<>>]

HierarchyOntologies ==
    {HierarchyOntology(n, pairs) :
        n \in 0..3, pairs \in SUBSET {<<1, 2>>, <<1, 3>>, <<2, 3>>}}

GenTBoxInit ==
    /\ ontology \in CardinalityOntologies \cup HierarchyOntologies
    /\ individuals = <<>>
    /\ individual_classes = <<>>
    /\ graph = {}
    /\ gen_pc = "new"
    /\ work = <<>>
    /\ abox_graph = {}
    /\ class_definitions = EmptyDict
    /\ reference_style = "reference"
    /\ converted_cache = EmptyDict
    /\ stack = <<>>
    /\ todo = <<>>
    /\ instances = <<>>
    /\ conv_pc = "idle"
    /\ config = [e \in Engines |-> DefaultConfig]
    /\ rules = [e \in Engines |-> InitializeRules(DefaultConfig)]
    /\ schema_builder = [e \in Engines |-> SchemaBuilder]
    /\ calls = [t \in Threads |-> IdleCall(t, <<>>)]
    /\ returned = <<>>
    /\ toggled = [id \in ToggledIds |-> ""]
    /\ validation = [pc |-> "idle"]
    /\ reasoner = [pc |-> "idle"]
    /\ parser = [pc |-> "idle"]

SpecGenTBox == GenTBoxInit /\ [][GenNext]_vars

\* The step _generate_property_assertions runs next, and what it reads.
PendingClass == ClassByUri(ontology, Head(work).class)
PendingCardinality == GetPropertyCardinality(PendingClass, Head(work).prop)
PendingIsFunctional ==
    IF Head(work).kind = "datatype"
    THEN DatatypePropByUri(ontology, Head(work).prop).functional
    ELSE ObjectPropByUri(ontology, Head(work).prop).functional
PendingNumValues ==
    IF Head(work).kind = "datatype"
    THEN DatatypeNumValues(PendingClass, DatatypePropByUri(ontology, Head(work).prop))
    ELSE ObjectNumValues(PendingClass, ObjectPropByUri(ontology, Head(work).prop))

\* The value counts the pending step can choose: none when the random draw
\* skips the property, else one of nums.
PendingCounts ==
    (IF PendingNumValues.skip THEN {0} ELSE {})
    \cup (IF PendingNumValues.error THEN {} ELSE PendingNumValues.nums)

\* The class of the pending step has cardinality restrictions on its
\* property that give both a minimum and a maximum.
PendingIsBounded ==
    /\ \E r \in Range(PendingClass.restrictions) :
          /\ r.property_uri = Head(work).prop
          /\ (r.min_cardinality # NoCard \/ r.exact_cardinality # NoCard)
    /\ PendingCardinality[2] # -1
    /\ PendingCardinality[1] <= PendingCardinality[2]

\* C22: for an individual of a class whose cardinality restrictions on an
\* applicable property give min <= max, the value count the generator
\* chooses lies between min and max (and is at most 1 for a functional
\* property), and generate() never raises, min > 3 and max = 0 included.
C22_CountWithinCardinality ==
    /\ gen_pc # "error"
    /\ (gen_pc = "assert" /\ work # <<>> /\ PendingIsBounded)
          => \A n \in PendingCounts :
                /\ PendingCardinality[1] <= n
                /\ n <= PendingCardinality[2]
                /\ PendingIsFunctional => n <= 1

\* C22, what the generator does establish: the same when the maximum is at
\* least 1, the minimum does not exceed the cap of the property kind (3 for
\* datatype and structural properties, 2 for the others) and a functional
\* property is not required more than once.
C22_CountWithinSmallCardinality ==
    (/\ gen_pc = "assert" /\ work # <<>> /\ PendingIsBounded
     /\ PendingCardinality[2] >= 1
     /\ PendingCardinality[1] <=
           (IF Head(work).kind = "datatype" \/ IsStructural(Head(work).prop)
            THEN StructuralCap ELSE PlainCap)
     /\ PendingIsFunctional => PendingCardinality[1] <= 1)
        => /\ ~PendingNumValues.error
           /\ \A n \in PendingCounts :
                 /\ PendingCardinality[1] <= n
                 /\ n <= PendingCardinality[2]
                 /\ PendingIsFunctional => n <= 1

\* C22: generate() has raised on a class whose restrictions give min <= max.
C22_GenerateRaised ==
    /\ gen_pc = "error"
    /\ work # <<>>
    /\ PendingIsBounded

\* The direct subclasses of a class, and a set of classes any two of which
\* are disjoint (declared by either of the two).
SubclassesOf(c) == {k \in Range(ontology.classes) : c.uri \in Range(k.super_classes)}
MutuallyDisjoint(S) ==
    \A x, y \in S : x.uri # y.uri =>
        (y.uri \in Range(x.disjoint_with) \/ x.uri \in Range(y.disjoint_with))

\* A class is concrete when it is not owl:Thing, carries no enumeration
\* annotation and is not the parent of two or more subclasses that are all
\* pairwise disjoint.
IsConcrete(c) ==
    /\ c.uri # THING
    /\ "enumeration" \notin DOMAIN c.annotations
    /\ ~(Cardinality(SubclassesOf(c)) >= 2 /\ MutuallyDisjoint(SubclassesOf(c)))

\* C25: generate() instantiates a class (calls _generate_class_individuals
\* for it, which enters it in self.individuals) exactly when the class is
\* concrete; a class with several subclasses of which only some pairs are
\* disjoint is concrete.
C25_InstantiatedExactlyWhenConcrete ==
    gen_pc # "new" =>
        \A c \in Range(ontology.classes) :
            (c.uri \in DOMAIN individuals) <=> IsConcrete(c)

\* C25, what _is_concrete_class does establish: owl:Thing and enumeration
\* classes are never instantiated, a class whose subclasses are all pairwise
\* disjoint is not, and a class with fewer than two subclasses or with no
\* disjoint pair among them is.
C25_InstantiatedUnlessSomePairDisjoint ==
    gen_pc # "new" =>
        \A c \in Range(ontology.classes) :
            /\ ~IsConcrete(c) => c.uri \notin DOMAIN individuals
            /\ (/\ IsConcrete(c)
                /\ \A x, y \in SubclassesOf(c) : x.uri # y.uri =>
                      (y.uri \notin Range(x.disjoint_with)
                       /\ x.uri \notin Range(y.disjoint_with)))
                  => c.uri \in DOMAIN individuals

\* C25: a class with three subclasses, not all pairwise disjoint, that
\* generate() has left without individuals.
C25_PartlyDisjointParentSkipped ==
    /\ gen_pc = "done"
    /\ \E c \in Range(ontology.classes) :
          /\ Cardinality(SubclassesOf(c)) = 3
          /\ ~MutuallyDisjoint(SubclassesOf(c))
          /\ c.uri \notin DOMAIN individuals

InverseFunctionalProps == {p \in Range(ontology.object_properties) : p.inverse_functional}

\* The subjects of the P edges that end in an individual.
SubjectsOf(g, p, o) == {t[1] : t \in {u \in g : u[2] = p /\ u[3] = o}}

\* C27: in the graph generate() returns, no individual is the object of
\* edges of an inverse-functional property from two different subjects,
\* whether the edges were generated directly or added as mirrors of edges
\* of the property's inverse.
C27_InverseFunctionalAtMostOneSubject ==
    gen_pc = "done" =>
        \A P \in InverseFunctionalProps : \A b \in GeneratedIndividuals :
            Cardinality(SubjectsOf(graph, P.uri, b)) <= 1

\* C27, what _get_used_targets_for_inverse_functional does establish: a
\* directly generated edge of an inverse-functional property never goes to
\* an individual that is already the object of an edge of that property.
C27_DirectEdgeTakesUnusedTarget ==
    [][(gen_pc = "assert" /\ work # <<>> /\ Head(work).kind = "object")
       => \A P \in InverseFunctionalProps : \A b \in GeneratedIndividuals :
             (/\ P.uri = Head(work).prop
              /\ <<Head(work).individual, P.uri, b>> \in graph' \ graph)
                 => SubjectsOf(graph, P.uri, b) = {}]_vars

\* C27: a returned graph in which mirroring has made one individual the
\* object of an inverse-functional property from two subjects.
C27_MirroredOntoUsedTarget ==
    /\ gen_pc = "done"
    /\ \E P \in InverseFunctionalProps : \E b \in GeneratedIndividuals :
          Cardinality(SubjectsOf(graph, P.uri, b)) = 2

\* ------------------------------ the engine on cardinality restrictions
\* transform() of a class whose restrictions carry every kind of
\* cardinality, consistent with each other or not.

\* The restrictions of the class: on ofType a minimum, a maximum, both in
\* one restriction, an exact count, or a value restriction; and a minimum
\* on a second property.
CardinalityPool ==
    {CardinalityRestriction(ofType, 0, NoCard, NoCard),
     CardinalityRestriction(ofType, 1, NoCard, NoCard),
     CardinalityRestriction(ofType, 3, NoCard, NoCard),
     CardinalityRestriction(ofType, NoCard, 1, NoCard),
     CardinalityRestriction(ofType, NoCard, 2, NoCard),
     CardinalityRestriction(ofType, 2, 3, NoCard),
     CardinalityRestriction(ofType, 3, 2, NoCard),
     CardinalityRestriction(ofType, NoCard, NoCard, 1),
     CardinalityRestriction(ofType, NoCard, NoCard, 2),
     ValueRestriction(ofType, "someValuesFrom", VehicleType),
     ValueRestriction(ofType, "allValuesFrom", VehicleType),
     ValueRestriction(ofType, "hasValue", VehicleType),
     CardinalityRestriction(composedOf, 1, NoCard, NoCard)}

CardinalityModels ==
    {RestrictedModel(rs, d) :
        rs \in UNION {[1..n -> CardinalityPool] : n \in 0..MaxRestrictions},
        d \in {"none", "object"}}

CardinalityInit ==
    /\ ontology = [classes |-> <<>>, object_properties |-> <<>>, datatype_properties |-> <<>>]
    /\ individuals = <<>>
    /\ individual_classes = <<>>
    /\ graph = {}
    /\ gen_pc = "idle"
    /\ work = <<>>
    /\ abox_graph = {}
    /\ class_definitions = EmptyDict
    /\ reference_style = "reference"
    /\ converted_cache = EmptyDict
    /\ stack = <<>>
    /\ todo = <<>>
    /\ instances = <<>>
    /\ conv_pc = "idle"
    /\ config = [e \in Engines |-> DefaultConfig]
    /\ rules = [e \in Engines |-> InitializeRules(DefaultConfig)]
    /\ schema_builder = [e \in Engines |-> SchemaBuilder]
    /\ \E m \in CardinalityModels :
          calls = [t \in Threads |-> IdleCall(1, IF t = 1 THEN <<m>> ELSE <<>>)]
    /\ returned = <<>>
    /\ toggled = [id \in ToggledIds |-> ""]
    /\ validation = [pc |-> "idle"]
    /\ reasoner = [pc |-> "idle"]
    /\ parser = [pc |-> "idle"]

SpecCardinality == CardinalityInit /\ [][EngineNext]_vars

\* minItems and maxItems of a schema are in order when both are there.
ItemsInOrder(schema) ==
    ("minItems" \in DOMAIN schema /\ "maxItems" \in DOMAIN schema)
        => schema["minItems"] <= schema["maxItems"]

\* The property schemas of the definitions of a returned document.
EmittedSchemas(doc) ==
    IF "definitions" \notin DOMAIN doc THEN {}
    ELSE UNION {{doc["definitions"][n]["properties"][P] :
                    P \in DOMAIN doc["definitions"][n]["properties"]} :
                n \in {k \in DOMAIN doc["definitions"] :
                          "properties" \in DOMAIN doc["definitions"][k]}}

\* C23: whatever cardinality restrictions a class carries on a property, in
\* one restriction or merged from several, the property schema the
\* class_restrictions rule returns, and the one in the returned document,
\* never has minItems greater than maxItems.
C23_MinItemsNeverAboveMaxItems ==
    /\ \A t \in Threads : \A cr \in RestrictionResults(t) :
          \A P \in DOMAIN cr["properties"] : ItemsInOrder(cr["properties"][P])
    /\ \A i \in DOMAIN returned :
          \A schema \in EmittedSchemas(returned[i].doc) : ItemsInOrder(schema)

\* The least and the greatest count the cardinality restrictions of class c
\* on property P allow together (MaxCard + 1 standing for no upper bound).
LeastCount(c, P) ==
    LET rs == {r \in Range(c.restrictions) : r.kind = "cardinality" /\ r.property_uri = P}
    IN  CHOOSE n \in 0..(MaxCard + 1) :
           /\ \A r \in rs : r.min_cardinality <= n /\ r.exact_cardinality <= n
           /\ \A k \in 0..(MaxCard + 1) :
                 (\A r \in rs : r.min_cardinality <= k /\ r.exact_cardinality <= k) => n <= k
GreatestCount(c, P) ==
    LET rs == {r \in Range(c.restrictions) : r.kind = "cardinality" /\ r.property_uri = P}
        allows(n) == \A r \in rs : /\ r.max_cardinality # NoCard => n <= r.max_cardinality
                                   /\ r.exact_cardinality # NoCard => n <= r.exact_cardinality
    IN  CHOOSE n \in 0..(MaxCard + 1) :
           allows(n) /\ \A k \in 0..(MaxCard + 1) : allows(k) => k <= n

\* C23, what the rule does establish: the same for a class whose
\* cardinality restrictions on the property do not contradict each other.
C23_ConsistentRestrictionsInOrder ==
    \A t \in Threads : \A c \in Range(calls[t].ontology.classes) :
        \A r \in Range(c.restrictions) :
            (HasConstraints(t, c) /\ LeastCount(c, r.property_uri) <= GreatestCount(c, r.property_uri))
                => ItemsInOrder(ConstraintsOf(t, c)["properties"][GetPropertyName(r.property_uri)])

\* C23: the rule has returned a schema with minItems above maxItems.
C23_MinItemsAboveMaxItems ==
    \E t \in Threads : \E cr \in RestrictionResults(t) :
        \E P \in DOMAIN cr["properties"] : ~ItemsInOrder(cr["properties"][P])

\* A restriction that implies a minimum cardinality of at least 1
\* (min >= 1, or exact >= 1), or a someValuesFrom.
ImpliesAtLeastOne(r) ==
    \/ r.kind = "cardinality" /\ (r.min_cardinality >= 1 \/ r.exact_cardinality >= 1)
    \/ IsSomeValuesFrom(r)

\* C24: the class_restrictions rule marks P required on class C exactly when
\* one of C's restrictions on P has min_cardinality >= 1 or
\* exact_cardinality >= 1 (exact > 1 included) or is a someValuesFrom;
\* allValuesFrom, hasValue, max-only and min = 0 alone never do.
C24_RequiredExactlyWhenAtLeastOne ==
    \A t \in Threads : calls[t].pc = "rules" /\ calls[t].last_rule = "class_restrictions" =>
        \A c \in Range(calls[t].ontology.classes) : \A k \in DOMAIN c.restrictions :
            /\ HasConstraints(t, c)
            /\ IsRequired(ConstraintsOf(t, c), GetPropertyName(c.restrictions[k].property_uri))
                  <=> \E j \in OnSameProperty(c, k) : ImpliesAtLeastOne(c.restrictions[j])

\* What _process_restriction marks required: min >= 1, exact = 1, or a
\* someValuesFrom.
MarksRequired(r) ==
    \/ r.kind = "cardinality" /\ (r.min_cardinality >= 1 \/ r.exact_cardinality = 1)
    \/ IsSomeValuesFrom(r)

\* C24, what the rule does establish: P is required exactly when one of the
\* restrictions on P has min_cardinality >= 1 or exact_cardinality = 1 or is
\* a someValuesFrom.
C24_RequiredExactlyWhenMarked ==
    \A t \in Threads : calls[t].pc = "rules" /\ calls[t].last_rule = "class_restrictions" =>
        \A c \in Range(calls[t].ontology.classes) : \A k \in DOMAIN c.restrictions :
            /\ HasConstraints(t, c)
            /\ IsRequired(ConstraintsOf(t, c), GetPropertyName(c.restrictions[k].property_uri))
                  <=> \E j \in OnSameProperty(c, k) : MarksRequired(c.restrictions[j])

\* C24: the rule has returned for a class restricted to exactly two values
\* of P, and P is not required.
C24_ExactTwoNotRequired ==
    \E t \in Threads : \E c \in Range(calls[t].ontology.classes) :
        /\ HasConstraints(t, c)
        /\ \E r \in Range(c.restrictions) :
              /\ r.kind = "cardinality" /\ r.exact_cardinality = 2
              /\ ~IsRequired(ConstraintsOf(t, c), GetPropertyName(r.property_uri))

\* ------------------------------------------ claims on validate's report

\* The number of instances in json_instances.
RECURSIVE CountInstances(_)
CountInstances(json_instances) ==
    IF json_instances = <<>> THEN 0
    ELSE Len(Head(json_instances).instances) + CountInstances(Tail(json_instances))

\* The entries of the errors list that belong to one instance.
InstanceErrors(results) == {i \in DOMAIN results.errors : results.errors[i].instance_index # -1}

\* A type whose instances validate() hands to jsonschema.
IsValidatedType(type_name) ==
    /\ type_name \in DOMAIN class_definitions
    /\ ~HasCircularReference(class_definitions, type_name, {})

\* Every instance of a validated type that jsonschema rejects, or on which
\* it raises an unexpected exception, has exactly one error entry with its
\* type and index.
OneErrorPerFailingInstance ==
    \A k \in DOMAIN validation.json_instances :
        LET entry == validation.json_instances[k] IN
        IsValidatedType(entry.type) =>
            \A i \in DOMAIN entry.instances :
                Cardinality({e \in DOMAIN validation.results.errors :
                                /\ validation.results.errors[e].type = entry.type
                                /\ validation.results.errors[e].instance_index = i - 1})
                    = IF entry.instances[i] \in {"ValidationError", "Exception"} THEN 1 ELSE 0

\* C26: validate() never aborts the batch on a failing instance: every
\* failing instance yields exactly one error entry with its type and index,
\* and on return total_count is the number of instances passed in,
\* validated_count plus the number of per-instance errors is total_count,
\* and valid is false exactly when errors is non-empty.
C26_BatchNeverAborted ==
    validation.pc = "done" =>
        /\ OneErrorPerFailingInstance
        /\ validation.results.total_count = CountInstances(validation.json_instances)
        /\ validation.results.validated_count + Cardinality(InstanceErrors(validation.results))
              = validation.results.total_count
        /\ validation.results.valid <=> (validation.results.errors = <<>>)

\* C26, what validate() does establish: the same with total_count the number
\* of instances of the types that have a schema definition.
C26_DefinedTypesCounted ==
    validation.pc = "done" =>
        /\ OneErrorPerFailingInstance
        /\ validation.results.total_count =
              CountInstances(SelectSeq(validation.json_instances,
                                       LAMBDA entry : entry.type \in DOMAIN class_definitions))
        /\ validation.results.validated_count + Cardinality(InstanceErrors(validation.results))
              = validation.results.total_count
        /\ validation.results.valid <=> (validation.results.errors = <<>>)

\* C26: validate() has returned a total_count below the number of
\* instances it was given, after a failing instance of an earlier type.
C26_UndefinedTypeNotCounted ==
    /\ validation.pc = "done"
    /\ validation.results.total_count < CountInstances(validation.json_instances)
    /\ InstanceErrors(validation.results) # {}

\* ------------------------------------------- transform_with_composite
\* engine.py 226-252 and CompositeVisitor.visit_ontology (visitor.py
\* 179-192): every enabled rule visits the ontology first, the results
\* that are not None are kept by rule id in the order of the rules, and
\* are then merged into the builder the engine has.

VisitOntology(enabled, o, cfg) ==
    SelectSeq([i \in DOMAIN RuleTable |->
                  [rule_id |-> RuleTable[i], result |-> Accept(RuleTable[i], o, cfg)]],
              LAMBDA r : enabled[r.rule_id] /\ ~r.result.is_none)

RECURSIVE ProcessResults(_,_)
ProcessResults(b, results) ==
    IF results = <<>> THEN b
    ELSE ProcessResults(ProcessRuleResult(b, Head(results).rule_id, Head(results).result.value),
                        Tail(results))

\* transform_with_composite(ontology): the whole call.
TransformWithComposite(t) ==
    /\ calls[t].pc = "idle"
    /\ calls[t].todo # <<>>
    /\ LET e == EngineOf(calls[t])
           o == Head(calls[t].todo)
           b == ProcessResults(schema_builder[e], VisitOntology(rules[e], o, config[e]))
           doc == BuildSchema(b)
       IN /\ schema_builder' = [schema_builder EXCEPT ![e] = [b EXCEPT !.schema = doc]]
          /\ returned' = Append(returned, [thread |-> t, engine |-> e, ontology |-> o,
                                           config |-> config[e], doc |-> doc])
    /\ calls' = [calls EXCEPT ![t].todo = Tail(@)]
    /\ UNCHANGED <<config, rules, genVars, convVars, auxVars>>

\* One engine; up to MaxCalls calls in a row, each of them transform or
\* transform_with_composite.
CompositeInit ==
    /\ ontology = [classes |-> <<>>, object_properties |-> <<>>, datatype_properties |-> <<>>]
    /\ individuals = <<>>
    /\ individual_classes = <<>>
    /\ graph = {}
    /\ gen_pc = "idle"
    /\ work = <<>>
    /\ abox_graph = {}
    /\ class_definitions = EmptyDict
    /\ reference_style = "reference"
    /\ converted_cache = EmptyDict
    /\ stack = <<>>
    /\ todo = <<>>
    /\ instances = <<>>
    /\ conv_pc = "idle"
    /\ \E cfg \in Configs :
          /\ config = [e \in Engines |-> cfg]
          /\ rules = [e \in Engines |-> InitializeRules(cfg)]
    /\ schema_builder = [e \in Engines |-> SchemaBuilder]
    /\ \E models \in UNION {[1..n -> CallModels] : n \in 1..MaxCalls} :
          calls = [t \in Threads |-> IdleCall(1, IF t = 1 THEN models ELSE <<>>)]
    /\ returned = <<>>
    /\ toggled = [id \in ToggledIds |-> ""]
    /\ validation = [pc |-> "idle"]
    /\ reasoner = [pc |-> "idle"]
    /\ parser = [pc |-> "idle"]

CompositeNext ==
    \E t \in Threads :
        \/ TransformBegin(t)
        \/ ApplyRule(t)
        \/ TransformReturn(t)
        \/ TransformWithComposite(t)

SpecComposite == CompositeInit /\ [][CompositeNext]_vars

\* The step of thread t is a whole transform_with_composite call (a
\* transform call returns from its rule loop).
CompositeReturns(t) ==
    /\ calls[t].pc = "idle"
    /\ calls[t].todo # <<>>
    /\ Len(returned') = Len(returned) + 1

\* C28: for every model and every engine state, fresh or after earlier
\* transform or transform_with_composite calls, transform_with_composite
\* returns the document transform returns for the model on the same
\* configuration.
C28_CompositeEqualsTransform ==
    [][\A t \in Threads : CompositeReturns(t) =>
          returned'[Len(returned')].doc
             = FreshTransform(Head(calls[t].todo), config[EngineOf(calls[t])])]_vars

\* C28, what transform_with_composite does establish: the same on an engine
\* that has not been used before.
C28_FirstCompositeEqualsTransform ==
    [][\A t \in Threads : (CompositeReturns(t) /\ returned = <<>>) =>
          returned'[Len(returned')].doc
             = FreshTransform(Head(calls[t].todo), config[EngineOf(calls[t])])]_vars

\* C28: a returned document that differs from the document a transform of
\* its model returns.
C28_CompositeKeptEarlierDefinitions ==
    \E i \in DOMAIN returned :
        /\ i > 1
        /\ returned[i].doc # FreshTransform(returned[i].ontology, returned[i].config)

\* ------------------------------------------ the engine on class names
\* transform() of a class and its subclass whose local names hold the
\* characters that definition-name sanitization rewrites.

LocalNames ==
    {<<"Vehicle">>, <<"Wagon">>, <<"Rolling", "-", "Stock">>,
     <<"Rolling", " ", "Stock">>, <<"rail", ":", "Stock">>}

NamedModel(super, sub) ==
    OntologyModel(
        <<OntologyClass(Uri(super), <<>>, <<>>, <<>>, EmptyDict),
          OntologyClass(Uri(sub), <<Uri(super)>>, <<>>, <<>>, EmptyDict)>>,
        <<>>, <<>>, EmptyDict)

NamedModels ==
    {NamedModel(p[1], p[2]) : p \in {q \in LocalNames \X LocalNames : q[1] # q[2]}}

NamesInit ==
    /\ ontology = [classes |-> <<>>, object_properties |-> <<>>, datatype_properties |-> <<>>]
    /\ individuals = <<>>
    /\ individual_classes = <<>>
    /\ graph = {}
    /\ gen_pc = "idle"
    /\ work = <<>>
    /\ abox_graph = {}
    /\ class_definitions = EmptyDict
    /\ reference_style = "reference"
    /\ converted_cache = EmptyDict
    /\ stack = <<>>
    /\ todo = <<>>
    /\ instances = <<>>
    /\ conv_pc = "idle"
    /\ \E cfg \in Configs :
          /\ config = [e \in Engines |-> cfg]
          /\ rules = [e \in Engines |-> InitializeRules(cfg)]
    /\ schema_builder = [e \in Engines |-> SchemaBuilder]
    /\ \E m \in NamedModels :
          calls = [t \in Threads |-> IdleCall(1, IF t = 1 THEN <<m>> ELSE <<>>)]
    /\ returned = <<>>
    /\ toggled = [id \in ToggledIds |-> ""]
    /\ validation = [pc |-> "idle"]
    /\ reasoner = [pc |-> "idle"]
    /\ parser = [pc |-> "idle"]

SpecNames == NamesInit /\ [][EngineNext]_vars

\* The definitions key a "#/definitions/<key>" reference points to.
RefKey(ref) == SubSeq(ref["$ref"], 5, Len(ref["$ref"]))

\* In document i, the allOf references of class c to its superclasses that
\* are classes of the model.
SuperclassRefs(i, c) ==
    LET def == returned[i].doc["definitions"][CleanDefinitionName(GetClassName(c.uri))]
    IN {def["allOf"][k] :
           k \in {j \in DOMAIN c.super_classes :
                     \E s \in Range(returned[i].ontology.classes) : s.uri = c.super_classes[j]}}

\* C29: after transform with class_to_object and class_hierarchy enabled,
\* every $ref in a definition's allOf to a superclass that is a class of the
\* model points to a key of definitions, whatever the local names are,
\* those with '-', ' ' or ':' included.
C29_SuperclassRefResolves ==
    \A i \in DOMAIN returned :
        (/\ InitializeRules(returned[i].config)["class_to_object"]
         /\ InitializeRules(returned[i].config)["class_hierarchy"])
            => \A c \in Range(returned[i].ontology.classes) :
                  \A ref \in SuperclassRefs(i, c) :
                      RefKey(ref) \in DOMAIN returned[i].doc["definitions"]

\* C29, what the engine does establish: the same for a superclass whose
\* local name sanitization leaves as it is.
C29_PlainSuperclassRefResolves ==
    \A i \in DOMAIN returned :
        (/\ InitializeRules(returned[i].config)["class_to_object"]
         /\ InitializeRules(returned[i].config)["class_hierarchy"])
            => \A c \in Range(returned[i].ontology.classes) :
                  \A ref \in SuperclassRefs(i, c) :
                      CleanDefinitionName(RefKey(ref)) = RefKey(ref)
                          => RefKey(ref) \in DOMAIN returned[i].doc["definitions"]

\* C29: a returned document whose allOf reference to a superclass with a
\* '-' in its name has no definition.
C29_DanglingSuperclassRef ==
    \E i \in DOMAIN returned : \E c \in Range(returned[i].ontology.classes) :
        /\ InitializeRules(returned[i].config)["class_to_object"]
        /\ InitializeRules(returned[i].config)["class_hierarchy"]
        /\ \E ref \in SuperclassRefs(i, c) :
              /\ RefKey(ref) = <<"Rolling", "-", "Stock">>
              /\ RefKey(ref) \notin DOMAIN returned[i].doc["definitions"]
              /\ <<"Rolling", "_", "Stock">> \in DOMAIN returned[i].doc["definitions"]


\* ---------------------------------------------------------------------
\* One ABoxValidator, several validate() calls in a row (reasoner.py)
\* ---------------------------------------------------------------------

MaxValidations == 2

\* The caller keeps the pair validate() returned and calls validate() with
\* the next A-box; the validator's fields are as the last call left them.
ValidateAgain ==
    /\ reasoner.pc = "done"
    /\ reasoner.pending # <<>>
    /\ reasoner' = [reasoner EXCEPT
                        !.pc = "new", !.raised = "",
                        !.abox_graph = Head(reasoner.pending),
                        !.pending = Tail(reasoner.pending),
                        !.results = Append(@, <<reasoner.is_consistent,
                                                reasoner.inconsistencies>>)]
    /\ UNCHANGED <<genVars, convVars, engVars, validation, parser, toggled>>

\* The T-boxes: A1 a subclass of A, p functional, A and B disjoint in any
\* of the ways or not at all.
RepeatedTBoxes ==
    {tb \in TBoxGraphs : /\ <<"A1", SUBCLASS_OF, "A">> \in tb
                         /\ <<"p", RDF_TYPE, FUNCTIONAL_PROPERTY>> \in tb}

\* The A-boxes: the named individual x of type A, of A and B, of A1 and B,
\* or of owl:Nothing, with no value of p or with two.
RepeatedABoxes ==
    {ab \in ABoxGraphs :
        /\ <<"x", RDF_TYPE, NAMED_INDIVIDUAL>> \in ab
        /\ <<"y", RDF_TYPE, NAMED_INDIVIDUAL>> \notin ab
        /\ Cardinality(GraphObjects(ab, "x", "p")) # 1
        /\ GraphObjects(ab, "x", RDF_TYPE) \ {NAMED_INDIVIDUAL}
              \in {{"A"}, {"A", "B"}, {"A1", "B"}, {NOTHING}}}

\* One validator built from a T-box, and the A-boxes it is asked to
\* validate, one after the other
RepeatedInit ==
    /\ ontology = [classes |-> <<>>, object_properties |-> <<>>, datatype_properties |-> <<>>]
    /\ individuals = <<>>
    /\ individual_classes = <<>>
    /\ graph = {}
    /\ gen_pc = "idle"
    /\ work = <<>>
    /\ abox_graph = {}
    /\ class_definitions = EmptyDict
    /\ reference_style = "reference"
    /\ converted_cache = EmptyDict
    /\ stack = <<>>
    /\ todo = <<>>
    /\ instances = <<>>
    /\ conv_pc = "idle"
    /\ config = [e \in Engines |-> DefaultConfig]
    /\ rules = [e \in Engines |-> InitializeRules(DefaultConfig)]
    /\ schema_builder = [e \in Engines |-> SchemaBuilder]
    /\ calls = [t \in Threads |-> IdleCall(t, <<>>)]
    /\ returned = <<>>
    /\ toggled = [id \in ToggledIds |-> ""]
    /\ validation = [pc |-> "idle"]
    /\ reasoner \in {[pc |-> "new", tbox_graph |-> tb, abox_graph |-> Head(aboxes),
                      combined_graph |-> {}, inconsistencies |-> <<>>, is_consistent |-> TRUE,
                      raised |-> "", pending |-> Tail(aboxes), results |-> <<>>] :
                        tb \in RepeatedTBoxes,
                        aboxes \in UNION {[1..n -> RepeatedABoxes] : n \in 1..MaxValidations}}
    /\ parser = [pc |-> "idle"]

RepeatedNext ==
    \/ ReasonerBegin
    \/ Expand
    \/ CheckInconsistencies
    \/ ReasonerReturn
    \/ ValidateAgain

SpecRepeated == RepeatedInit /\ [][RepeatedNext]_vars

\* The pairs validate() may return for an A-box on a validator that has
\* validated nothing before: the closure raises, or the checks run to the
\* end, or they raise after some of their issues.
FirstValidate(tbox, abox) ==
    {<<FALSE, <<Issue("reasoning_error", "", <<>>, "")>>>>}
    \cup UNION {{<<issues = <<>>, issues>>}
                \cup {<<FALSE, Append(SubSeq(issues, 1, n),
                                      Issue("reasoning_error", "", <<>>, ""))>> :
                         n \in 0..Len(issues)} :
                   issues \in CheckResults(DeductiveClosure(tbox \cup abox))}

\* C30: for any sequence of validate calls on one validator, each call
\* returns is_consistent true exactly when the issues it returns are none,
\* and returns a pair the same A-box may give on a validator that validated
\* nothing before, so that neither the flag nor an issue is carried over
\* (a consistent A-box after an inconsistent one gives (true, [])); and no
\* step of any call changes the T-box graph the validator holds.
C30_EachCallStartsAfresh ==
    /\ [](reasoner.pc = "done"
          => /\ reasoner.is_consistent <=> (reasoner.inconsistencies = <<>>)
             /\ <<reasoner.is_consistent, reasoner.inconsistencies>>
                   \in FirstValidate(reasoner.tbox_graph, reasoner.abox_graph)
             /\ \A i \in DOMAIN reasoner.results :
                   reasoner.results[i][1] <=> (reasoner.results[i][2] = <<>>))
    /\ [][reasoner'.tbox_graph = reasoner.tbox_graph]_vars

\* C30: a call returned (true, []) for a consistent A-box right after a
\* call on the same validator returned issues for an inconsistent one.
C30_ConsistentAfterInconsistent ==
    /\ reasoner.pc = "done"
    /\ reasoner.raised = ""
    /\ reasoner.results # <<>>
    /\ ~reasoner.results[Len(reasoner.results)][1]
    /\ reasoner.results[Len(reasoner.results)][2] # <<>>
    /\ reasoner.is_consistent
    /\ reasoner.inconsistencies = <<>>
    /\ reasoner.tbox_graph # {}

====
